---- MODULE Spec2Model ----
(***************************************************************************)
(* ValutaTrade Hub: wallets, portfolios, the JSON store and the trade      *)
(* service (valutatrade_hub/core, valutatrade_hub/infra).                  *)
(***************************************************************************)
EXTENDS Integers, Sequences, FiniteSets, TLC

(***************************************************************************)
(* Numbers.  Python's Decimal and float values are modelled as decimal     *)
(* floating point numbers m * 10^e with a bounded number of significant    *)
(* digits.  A number is kept normalised (no trailing zero in m, zero is    *)
(* [m |-> 0, e |-> 0]) so that equal values are equal records.             *)
(***************************************************************************)

\* significant digits of a Decimal result (decimal.getcontext().prec)
DecPrec == 6
\* significant digits of a float (a double keeps fewer digits than a Decimal)
FloatPrec == 5

Abs(n) == IF n < 0 THEN -n ELSE n

RECURSIVE Pow10(_)
Pow10(k) == IF k <= 0 THEN 1 ELSE 10 * Pow10(k - 1)

RECURSIVE Digits(_)
Digits(n) == IF Abs(n) < 10 THEN 1 ELSE 1 + Digits(Abs(n) \div 10)

RECURSIVE Norm(_, _)
Norm(m, e) ==
    IF m = 0 THEN [m |-> 0, e |-> 0]
    ELSE IF m % 10 = 0 THEN Norm(m \div 10, e + 1)
    ELSE [m |-> m, e |-> e]

Sign(n) == IF n < 0 THEN -1 ELSE IF n = 0 THEN 0 ELSE 1

\* m * 10^e rounded half-even to p significant digits
Round(m, e, p) ==
    IF Digits(m) <= p THEN Norm(m, e)
    ELSE LET k == Digits(m) - p
             q == Abs(m) \div Pow10(k)
             r == Abs(m) % Pow10(k)
             half == 5 * Pow10(k - 1)
             up == (r > half) \/ (r = half /\ q % 2 = 1)
         IN  Norm(Sign(m) * (IF up THEN q + 1 ELSE q), e + k)

Dec(m, e) == Norm(m, e)
Zero == Dec(0, 0)
One == Dec(1, 0)

\* position of the leading digit: the value lies in [10^(Adj-1), 10^Adj)
Adj(a) == Digits(a.m) + a.e

\* a.m scaled so that the operand has exponent e (e <= a.e)
Scaled(a, e) == a.m * Pow10(a.e - e)

Min(x, y) == IF x <= y THEN x ELSE y
Max(x, y) == IF x <= y THEN y ELSE x

\* a < b, for any signs
DecLess(a, b) ==
    IF Sign(a.m) # Sign(b.m) THEN Sign(a.m) < Sign(b.m)
    ELSE IF a.m = 0 THEN FALSE
    ELSE IF Adj(a) # Adj(b)
         THEN IF a.m > 0 THEN Adj(a) < Adj(b) ELSE Adj(a) > Adj(b)
    ELSE LET e == Min(a.e, b.e) IN Scaled(a, e) < Scaled(b, e)

DecLeq(a, b) == a = b \/ DecLess(a, b)

DecNeg(a) == [m |-> -a.m, e |-> a.e]

\* x.m expressed in units of 10^E; digits below 10^E are cut off and leave a
\* sticky 1 behind when the last kept digit is 0 or 5, so that a later
\* rounding sees on which side of a tie the exact value lies
Aligned(x, E) ==
    IF x.e >= E THEN x.m * Pow10(x.e - E)
    ELSE LET k == E - x.e
             q == IF k >= 10 THEN 0 ELSE Abs(x.m) \div Pow10(k)
             r == IF k >= 10 THEN Abs(x.m) ELSE Abs(x.m) % Pow10(k)
             sticky == IF r # 0 /\ q % 5 = 0 THEN 1 ELSE 0
         IN  Sign(x.m) * (q + sticky)

\* a + b rounded to p digits (computed with two guard digits)
AddP(a, b, p) ==
    IF a.m = 0 THEN Round(b.m, b.e, p)
    ELSE IF b.m = 0 THEN Round(a.m, a.e, p)
    ELSE LET E == Max(Max(Adj(a), Adj(b)) - p - 2, Min(a.e, b.e))
         IN  Round(Aligned(a, E) + Aligned(b, E), E, p)

\* a * b rounded to p digits; factors too long for the integer width are
\* multiplied in halves of four digits (both below 10^8), and the leading nine
\* digits of the exact product are rounded
MulP(a, b, p) ==
    IF Digits(a.m) + Digits(b.m) <= 9 THEN Round(a.m * b.m, a.e + b.e, p)
    ELSE LET a1 == Abs(a.m) \div 10000
             a0 == Abs(a.m) % 10000
             b1 == Abs(b.m) \div 10000
             b0 == Abs(b.m) % 10000
             mid == (a1 * b0) + (a0 * b1) + ((a0 * b0) \div 10000)
             top == (a1 * b1) + (mid \div 10000)
             low == ((mid % 10000) * 10000) + ((a0 * b0) % 10000)
             g == 9 - Digits(top)
             v == (top * Pow10(g)) + (low \div Pow10(8 - g))
             r == low % Pow10(8 - g)
             sticky == IF r # 0 /\ v % 5 = 0 THEN 1 ELSE 0
         IN  Round(Sign(a.m) * Sign(b.m) * (v + sticky), a.e + b.e + 8 - g, p)

RECURSIVE LongDiv(_, _, _, _, _)
\* long division: digits of the quotient are produced until it has p of them
\* or the division is exact; [q, r, s] with n * 10^s = q * d + r
LongDiv(q, r, d, s, p) ==
    IF r = 0 \/ q >= Pow10(p - 1) THEN [q |-> q, r |-> r, s |-> s]
    ELSE LongDiv(q * 10 + (r * 10) \div d, (r * 10) % d, d, s + 1, p)

\* a / b rounded half-even to p digits (b # 0)
DivP(a, b, p) ==
    IF a.m = 0 THEN Zero
    ELSE LET n == Abs(a.m)
             d == Abs(b.m)
             ld == LongDiv(n \div d, n % d, d, 0, p)
             up == (2 * ld.r > d) \/ (2 * ld.r = d /\ ld.q % 2 = 1)
             sg == Sign(a.m) * Sign(b.m)
         IN  Round(sg * (IF up THEN ld.q + 1 ELSE ld.q), a.e - b.e - ld.s, p)

\* Decimal arithmetic
DecAdd(a, b) == AddP(a, b, DecPrec)
DecSub(a, b) == AddP(a, DecNeg(b), DecPrec)
DecMul(a, b) == MulP(a, b, DecPrec)
DecDiv(a, b) == DivP(a, b, DecPrec)
\* float(x): the nearest float
ToFloat(a) == Round(a.m, a.e, FloatPrec)
\* float arithmetic
FloatAdd(a, b) == AddP(a, b, FloatPrec)
FloatSub(a, b) == AddP(a, DecNeg(b), FloatPrec)


(***************************************************************************)
(* core/models.py: Wallet.  A balance is a float; the methods are declared *)
(* for float amounts (deposit(amount: float), withdraw(amount: float)).    *)
(***************************************************************************)

\* Wallet.balance setter: the value must not be negative
balance_setter(old, value) ==
    IF DecLess(value, Zero)
    THEN [balance |-> old, ret |-> "ValueError"]
    ELSE [balance |-> ToFloat(value), ret |-> "None"]

\* Wallet.deposit
deposit(balance, amount) ==
    IF DecLeq(amount, Zero)
    THEN [balance |-> balance, ret |-> "ValueError"]
    ELSE balance_setter(balance, FloatAdd(balance, amount))

\* a withdraw that does not reject amount <= 0
withdraw_unchecked(balance, amount) ==
    IF DecLess(balance, amount)
    THEN [balance |-> balance, ret |-> "False"]
    ELSE LET set == balance_setter(balance, FloatSub(balance, amount))
         IN  [balance |-> set.balance,
              ret |-> IF set.ret = "None" THEN "True" ELSE set.ret]

\* Wallet.withdraw
withdraw(balance, amount) ==
    IF DecLeq(amount, Zero)
    THEN [balance |-> balance, ret |-> "ValueError"]
    ELSE IF DecLess(balance, amount)
    THEN [balance |-> balance, ret |-> "False"]
    ELSE LET set == balance_setter(balance, FloatSub(balance, amount))
         IN  [balance |-> set.balance,
              ret |-> IF set.ret = "None" THEN "True" ELSE set.ret]

\* amounts passed to a wallet, and the balances a wallet starts with
WalletAmounts == {Dec(-1, 0), Zero, Dec(5, -1), One, Dec(2, 0)}
WalletStart == {Zero, One, Dec(25, -1)}
\* deposits stop once the balance has reached this value
MaxWalletBalance == 6

(***************************************************************************)
(* core/currencies.py, infra/settings.py: the registry and the settings    *)
(* the trade service reads.                                                *)
(***************************************************************************)

\* codes of CurrencyRegistry: those the model trades in, and RUB, for which
\* no rate is stored or built in
Registry == {"USD", "EUR", "BTC", "RUB"}
\* codes a caller asks to buy or sell; "ZZZ" is not registered
Codes == {"EUR", "BTC", "ZZZ"}

\* CurrencyRegistry.get_currency: raises CurrencyNotFoundError for other codes
get_currency_ok(code) == code \in Registry

\* settings 'rates.default_base_currency'
default_base_currency == "USD"
\* settings 'trading.min_trade_amount'
min_trade_amount == Dec(1, -8)
\* settings 'trading.default_fee_percent', as a fraction: Decimal(str(0.1 / 100))
default_fee_rate == Dec(1, -3)
\* settings 'rates.ttl_seconds'
rates_ttl == 300
\* cache_result(ttl_seconds=60) on get_rate
ttl_seconds == 60
\* DatabaseManager._cache_ttl
cache_ttl == 60

(***************************************************************************)
(* decorators.py: log_action.  The wrapper logs the outcome with           *)
(* extra=log_extra, and with include_args (the default) log_extra holds    *)
(* the key 'args', a key of every LogRecord: whenever the record is        *)
(* emitted, logging's makeRecord raises KeyError("Attempt to overwrite     *)
(* 'args' in LogRecord").  The services run under logging's default        *)
(* threshold, WARNING.  On success the record has level INFO and is not    *)
(* emitted (were it emitted, ExchangeRateService.__init__, which calls the *)
(* decorated _load_rates, would raise and no TradeService would exist).    *)
(* On an exception the record has level ERROR: the KeyError leaves the     *)
(* wrapper in place of the exception the function raised.                  *)
(***************************************************************************)

\* log_action: the outcome the caller of the decorated function sees, exc
\* being what the function raised ("None": it returned)
log_action(exc) == IF exc = "None" THEN "None" ELSE "KeyError"

(***************************************************************************)
(* core/usecases.py: ExchangeRateService.  The pair key "<FROM>_<TO>" is   *)
(* the tuple <<from, to>>.                                                 *)
(***************************************************************************)

Pairs == {p \in Registry \X Registry : p[1] # p[2]}
NoRate == [rate |-> Zero, updated_at |-> -1]

\* the keys of the built-in table of _fetch_rate_from_api among the pairs of
\* the model's currencies; the table has no pair with RUB
FakePairs ==
    { <<"USD", "EUR">>, <<"USD", "BTC">>, <<"EUR", "USD">>,
      <<"BTC", "USD">>, <<"EUR", "BTC">>, <<"BTC", "EUR">> }

\* _fetch_rate_from_api: the built-in table (BTC_USD 59337.21 and BTC_EUR
\* 63694.27 are kept to the five digits a model float holds)
fake_rates ==
    [p \in FakePairs |->
        CASE p = <<"USD", "EUR">> -> Dec(9271, -4)
          [] p = <<"USD", "BTC">> -> Dec(1685, -8)
          [] p = <<"EUR", "USD">> -> Dec(10786, -4)
          [] p = <<"BTC", "USD">> -> Dec(59337, 0)
          [] p = <<"EUR", "BTC">> -> Dec(157, -7)
          [] p = <<"BTC", "EUR">> -> Dec(63694, 0)]

\* _is_rate_fresh: age <= TTL
is_rate_fresh(rec, now) == rec # NoRate /\ now - rec.updated_at <= rates_ttl

\* an entry of cache_result's cache: the result and the time it was stored.
\* as_of is not part of the cache: it records the updated_at of the oldest
\* rate record the result was computed from
NoMemo == [rate |-> Zero, at |-> -1, as_of |-> -1]

\* cache_result around get_rate: a result younger than ttl_seconds is
\* returned without calling the function
cache_hit(memo, from, to, now) ==
    memo[<<from, to>>] # NoMemo /\ now - memo[<<from, to>>].at < ttl_seconds

\* random.uniform(0.99, 1.01) in _update_rates_from_api: the two ends
Changes == {Dec(99, -2), Dec(101, -2)}

\* the draws of one get_rate: one change per stored pair when the call
\* refreshes the rates, none otherwise
Draws(svc, memo, from, to, now) ==
    IF from # to /\ ~cache_hit(memo, from, to, now) /\ now - svc.ts > rates_ttl
    THEN [{p \in Pairs : svc.rates[p] # NoRate} -> Changes]
    ELSE {<<>>}

\* _update_rates_from_api: every stored rate is multiplied by a random change
\* and stamped with the current time
update_rates_from_api(rates, change, now) ==
    [p \in Pairs |->
        IF rates[p] = NoRate THEN NoRate
        ELSE [rate |-> ToFloat(DecMul(rates[p].rate, change[p])),
              updated_at |-> now]]

\* _update_rate_in_cache: the fetched rate is stored as a float
update_rate_in_cache(rates, pair, rate, now) ==
    [rates EXCEPT ![pair] = [rate |-> ToFloat(rate), updated_at |-> now]]

\* the inverse pair of get_rate is used when it is stored and fresh
get_rate_inverse(rates, from, to, now) ==
    is_rate_fresh(rates[<<to, from>>], now)

\* retry_on_exception(max_retries=3) on get_rate
max_retries == 3
\* the nested get_rate calls the interpreter's stack holds: one more raises
\* RecursionError
RecursionLimit == 2

\* the outcome of a get_rate call: the rate returned or the exception
\* raised, the service state and the cache of cache_result it leaves, and
\* what the call did: depth (the deepest nesting of get_rate inside it),
\* calls (the runs of the function body), as_of (the updated_at of the
\* oldest rate record the rate comes from; the time of the call for a rate
\* taken from the table of _fetch_rate_from_api)
Outcome(rate, exc, svc, memo, depth, calls, as_of) ==
    [rate |-> rate, exc |-> exc, svc |-> svc, memo |-> memo,
     depth |-> depth, calls |-> calls, as_of |-> as_of]

\* the value of F at v, with v computed once
Eval(F(_), v) == CHOOSE y \in {F(x) : x \in {v}} : TRUE

RECURSIVE get_rate_at(_, _, _, _, _, _, _)

\* _fetch_rate_from_api, after both nested get_rate calls: what the second
\* raised is turned into ApiRequestError by the bare except; otherwise the
\* product is returned and _update_rate_in_cache stores it
fetch_usd_product(usd_from, usd_to, from, to, now) ==
    IF usd_to.exc # "None"
    THEN Outcome(Zero, "ApiRequestError", usd_to.svc, usd_to.memo,
                 Max(usd_from.depth, usd_to.depth),
                 usd_from.calls + usd_to.calls, now)
    ELSE Outcome(DecMul(usd_from.rate, usd_to.rate), "None",
                 [rates |-> update_rate_in_cache(
                                usd_to.svc.rates, <<from, to>>,
                                DecMul(usd_from.rate, usd_to.rate), now),
                  ts |-> now],
                 usd_to.memo,
                 Max(usd_from.depth, usd_to.depth),
                 usd_from.calls + usd_to.calls,
                 Min(usd_from.as_of, usd_to.as_of))

\* _fetch_rate_from_api, after get_rate(from, "USD"): what it raised
\* (RecursionError included) is turned into ApiRequestError by the bare
\* except; otherwise get_rate("USD", to) is called
fetch_usd_to(usd_from, from, to, change, now, depth) ==
    IF usd_from.exc # "None"
    THEN Outcome(Zero, "ApiRequestError", usd_from.svc, usd_from.memo,
                 usd_from.depth, usd_from.calls, now)
    ELSE Eval(LAMBDA usd_to : fetch_usd_product(usd_from, usd_to, from, to, now),
              get_rate_at(usd_from.svc, usd_from.memo, "USD", to, change, now,
                          depth + 1))

\* _fetch_rate_from_api and _update_rate_in_cache, the tail of get_rate.  A
\* pair of the table is answered from it.  Any other pair is computed as
\* get_rate(from, "USD") * get_rate("USD", to), two calls of the decorated
\* get_rate
fetch_rate_from_api(svc, memo, from, to, change, now, depth) ==
    IF <<from, to>> \in FakePairs
    THEN Outcome(fake_rates[<<from, to>>], "None",
                 [rates |-> update_rate_in_cache(svc.rates, <<from, to>>,
                                                 fake_rates[<<from, to>>], now),
                  ts |-> now],
                 memo, depth, 0, now)
    ELSE IF depth >= RecursionLimit
    THEN Outcome(Zero, "ApiRequestError", svc, memo, depth, 0, now)
    ELSE Eval(LAMBDA usd_from : fetch_usd_to(usd_from, from, to, change, now,
                                             depth),
              get_rate_at(svc, memo, from, "USD", change, now, depth + 1))

\* get_rate after the refresh of stale rates, on the service state svc1 the
\* refresh left: the direct pair, the inverse pair, _fetch_rate_from_api
get_rate_lookup(svc1, memo, from, to, change, now, depth) ==
    IF is_rate_fresh(svc1.rates[<<from, to>>], now)
    THEN Outcome(svc1.rates[<<from, to>>].rate, "None", svc1, memo, depth, 1,
                 svc1.rates[<<from, to>>].updated_at)
    ELSE IF get_rate_inverse(svc1.rates, from, to, now)
    THEN Outcome(DecDiv(One, svc1.rates[<<to, from>>].rate), "None", svc1, memo,
                 depth, 1, svc1.rates[<<to, from>>].updated_at)
    ELSE Eval(LAMBDA f : [f EXCEPT !.calls = @ + 1],
              fetch_rate_from_api(svc1, memo, from, to, change, now, depth))

\* get_rate with the refresh of stale rates moved before the test
\* from_currency == to_currency: a call for a currency against itself then
\* refreshes and rewrites the stored rates (no change is drawn for such a
\* call: the refresh stamps the rates with the current time)
get_rate_body_refresh_first(svc, memo, from, to, change, now, depth) ==
    IF ~get_currency_ok(from) \/ ~get_currency_ok(to)
    THEN Outcome(Zero, "CurrencyNotFoundError", svc, memo, depth, 1, now)
    ELSE IF from = to
    THEN Outcome(One, "None",
                 IF now - svc.ts > rates_ttl
                 THEN [rates |-> [p \in Pairs |->
                                     IF svc.rates[p] = NoRate THEN NoRate
                                     ELSE [svc.rates[p] EXCEPT !.updated_at = now]],
                       ts |-> now]
                 ELSE svc,
                 memo, depth, 1, now)
    ELSE Eval(LAMBDA svc1 : get_rate_lookup(svc1, memo, from, to, change, now,
                                            depth),
              IF now - svc.ts > rates_ttl
              THEN [rates |-> update_rates_from_api(svc.rates, change, now),
                    ts |-> now]
              ELSE svc)

\* ExchangeRateService.get_rate, the function body, on the service state
\* [rates, ts]: rates is _rates_cache["rates"], ts is _cache_timestamp.
\* Every change of the rates ends in _save_rates, which writes them through
\* to the rates file.
get_rate_body(svc, memo, from, to, change, now, depth) ==
    IF ~get_currency_ok(from) \/ ~get_currency_ok(to)
    THEN Outcome(Zero, "CurrencyNotFoundError", svc, memo, depth, 1, now)
    ELSE IF from = to THEN Outcome(One, "None", svc, memo, depth, 1, now)
    ELSE Eval(LAMBDA svc1 : get_rate_lookup(svc1, memo, from, to, change, now,
                                            depth),
              IF now - svc.ts > rates_ttl
              THEN [rates |-> update_rates_from_api(svc.rates, change, now),
                    ts |-> now]
              ELSE svc)

\* cache_result, after the body has run: what it raised leaves log_action as
\* log_action(exc), and what it returned is cached
cache_store(r, from, to, now) ==
    IF r.exc # "None" THEN [r EXCEPT !.exc = log_action(r.exc)]
    ELSE [r EXCEPT !.memo =
              [r.memo EXCEPT ![<<from, to>>] =
                  [rate |-> r.rate, at |-> now, as_of |-> r.as_of]]]

\* cache_result(ttl_seconds=60) around measure_performance and log_action
\* around the body: a cached result is returned as it is; otherwise the body
\* runs
cache_result(svc, memo, from, to, change, now, depth) ==
    IF cache_hit(memo, from, to, now)
    THEN Outcome(memo[<<from, to>>].rate, "None", svc, memo, depth, 0,
                 memo[<<from, to>>].as_of)
    ELSE Eval(LAMBDA r : cache_store(r, from, to, now),
              get_rate_body(svc, memo, from, to, change, now, depth))

RECURSIVE retry_on_exception(_, _, _, _, _, _, _, _)

\* retry_on_exception, after a failed attempt r and the attempts made after it
retry_total(r, again) ==
    [again EXCEPT !.depth = Max(r.depth, again.depth),
                  !.calls = r.calls + again.calls]

\* retry_on_exception, after an attempt r: the call is made again, on the
\* state the failed attempt left, until it returns or has failed `left` times
retry_after(r, from, to, change, now, depth, left) ==
    IF r.exc = "None" \/ left <= 1 THEN r
    ELSE Eval(LAMBDA again : retry_total(r, again),
              retry_on_exception(r.svc, r.memo, from, to, change, now, depth,
                                 left - 1))

retry_on_exception(svc, memo, from, to, change, now, depth, left) ==
    Eval(LAMBDA r : retry_after(r, from, to, change, now, depth, left),
         cache_result(svc, memo, from, to, change, now, depth))

\* the decorated get_rate, called at nesting depth `depth`
get_rate_at(svc, memo, from, to, change, now, depth) ==
    retry_on_exception(svc, memo, from, to, change, now, depth, max_retries)

\* get_rate as callers see it
get_rate(svc, memo, from, to, change, now) ==
    get_rate_at(svc, memo, from, to, change, now, 0)

(***************************************************************************)
(* infra/database.py: DatabaseManager on the portfolios file.  A file is   *)
(* [ok, data]: ok is FALSE when its text is not JSON (a write that failed  *)
(* after open(filepath, 'w') truncated it); data is the list of portfolio  *)
(* records, empty when the file does not exist.  A record is               *)
(* [user_id, wallets], wallets mapping each code to the wallet's balance   *)
(* or to NoWallet.                                                         *)
(***************************************************************************)

NoWallet == [m |-> 0, e |-> -1]
NoWallets == [c \in Registry |-> NoWallet]
NoCache == [valid |-> FALSE, data |-> <<>>, at |-> 0]

\* _get_cached_data: the cached list, while younger than the cache TTL
get_cached_data(cache, now) == cache.valid /\ now - cache.at < cache_ttl

\* read_data: [exc, data, cache]
read_data(file, cache, use_cache, now) ==
    IF use_cache /\ get_cached_data(cache, now)
    THEN [exc |-> "None", data |-> cache.data, cache |-> cache]
    ELSE IF ~file.ok
    THEN [exc |-> "DatabaseError", data |-> <<>>, cache |-> cache]
    ELSE [exc |-> "None", data |-> file.data,
          cache |-> IF use_cache
                    THEN [valid |-> TRUE, data |-> file.data, at |-> now]
                    ELSE cache]

\* what a write can meet: none, a failure before the file is opened
\* ("denied": the file is left as it was), a failure after open(..., 'w')
\* truncated it ("torn": the file no longer holds JSON)
Faults == {"none", "denied", "torn"}

\* _write_file: [exc, file, cache]; the cache entry is dropped only after a
\* write that succeeded
write_file(file, cache, data, fault) ==
    CASE fault = "none" ->
            [exc |-> "None", file |-> [ok |-> TRUE, data |-> data],
             cache |-> NoCache]
      [] fault = "denied" ->
            [exc |-> "DatabaseError", file |-> file, cache |-> cache]
      [] fault = "torn" ->
            [exc |-> "DatabaseError", file |-> [ok |-> FALSE, data |-> <<>>],
             cache |-> cache]

\* find_one with the predicate p.get("user_id") == user_id: the index of the
\* first such record of the list, 0 when there is none
find_one(data, user_id) ==
    IF \E i \in 1..Len(data) : data[i].user_id = user_id
    THEN CHOOSE i \in 1..Len(data) :
            /\ data[i].user_id = user_id
            /\ \A j \in 1..(i - 1) : data[j].user_id # user_id
    ELSE 0

\* insert: update_data with an updater that appends the item
insert(file, cache, item, fault, now) ==
    LET rd == read_data(file, cache, FALSE, now)
    IN  IF rd.exc # "None" THEN [exc |-> rd.exc, file |-> file, cache |-> cache]
        ELSE write_file(file, cache, Append(rd.data, item), fault)

\* update: update_data with an updater that replaces the first record of
\* the user; the list is written back also when no record matched
update(file, cache, user_id, item, fault, now) ==
    LET rd == read_data(file, cache, FALSE, now)
        i == find_one(rd.data, user_id)
    IN  IF rd.exc # "None" THEN [exc |-> rd.exc, file |-> file, cache |-> cache]
        ELSE write_file(file, cache,
                        IF i = 0 THEN rd.data ELSE [rd.data EXCEPT ![i] = item],
                        fault)

\* update_data(portfolios_file, execute_buy): the file is read, then
\* updater_func(data) is called; execute_buy and execute_sell are closures
\* that take no parameter, so the call raises TypeError before the closure
\* runs and before anything is written
update_data_closure(file, cache, now) ==
    LET rd == read_data(file, cache, FALSE, now)
    IN  IF rd.exc # "None" THEN rd.exc ELSE "TypeError"

(***************************************************************************)
(* core/models.py: Portfolio; core/usecases.py: PortfolioManager,          *)
(* TradeService.                                                           *)
(***************************************************************************)

\* Portfolio.to_dict
to_dict(user_id, wallets) == [user_id |-> user_id, wallets |-> wallets]

\* Portfolio.add_currency on a portfolio without the wallet: a Wallet with
\* the default balance 0.0
add_currency(wallets, code) == [wallets EXCEPT ![code] = Zero]

\* the validation at the head of buy_currency and sell_currency: the
\* exception raised, "None" when the call goes on to quote the rate
validate(op, currency, other, amount) ==
    IF ~get_currency_ok(currency) \/ ~get_currency_ok(other)
    THEN "CurrencyNotFoundError"
    ELSE IF DecLeq(amount, Zero) THEN "InvalidAmountError"
    ELSE IF op = "buy" /\ DecLess(amount, min_trade_amount)
    THEN "InvalidAmountError"
    ELSE "None"

\* the wallet whose balance must cover the trade, and the wallet that
\* receives: base and bought currency of a buy, sold and target currency of
\* a sell
debit_code(op, currency, other) == IF op = "buy" THEN other ELSE currency
credit_code(op, currency, other) == IF op = "buy" THEN currency ELSE other

\* the pair quoted: get_rate(base_currency, currency) by buy_currency,
\* get_rate(currency, target_currency) by sell_currency
quote_pair(op, currency, other) ==
    IF op = "buy" THEN <<other, currency>> ELSE <<currency, other>>

\* cost_in_base (revenue of a sell), fee, and total_cost (net_revenue of a
\* sell) from the quoted rate
amounts(op, amount, rate) ==
    LET cost == DecMul(amount, rate)
        fee == DecMul(cost, default_fee_rate)
    IN  [cost |-> cost, fee |-> fee,
         total |-> IF op = "buy" THEN DecAdd(cost, fee) ELSE DecSub(cost, fee)]

\* the same with the fee_percent argument given: the fee is
\* cost * Decimal(str(fee_percent / 100))
amounts_fee(op, amount, rate, fee_percent) ==
    LET cost == DecMul(amount, rate)
        fee == DecMul(cost, Dec(fee_percent, -2))
    IN  [cost |-> cost, fee |-> fee,
         total |-> IF op = "buy" THEN DecAdd(cost, fee) ELSE DecSub(cost, fee)]

\* the funds check on the loaded portfolio: the exception raised, "None"
\* when the funds suffice
funds_check(op, wallets, currency, other, amount, total) ==
    LET code == debit_code(op, currency, other)
        required == IF op = "buy" THEN total ELSE amount
    IN  IF wallets[code] = NoWallet THEN "ValueError"
        ELSE IF DecLess(wallets[code], required) THEN "InsufficientFundsError"
        ELSE "None"

(***************************************************************************)
(* The state.                                                              *)
(***************************************************************************)

\* the users who trade and the request threads of the model
Users == {1}
Threads == {"t1", "t2"}
\* amounts a caller asks for: none, below the minimum, the scenario's 0.01, 1
Amounts == {Zero, Dec(1, -9), Dec(1, -2), One}
\* seconds by which the clock advances in one step
TimeSteps == {301}
\* the clock stops here
MaxTime == 301
\* writes that may fail in one run
MaxFaults == 1

\* contents of the portfolios file when the services are constructed
InitialStores ==
    { <<>>,
      << to_dict(1, [NoWallets EXCEPT !["USD"] = Dec(1, 3)]) >>,
      << to_dict(1, [NoWallets EXCEPT !["USD"] = Dec(1, 3),
                                      !["BTC"] = Dec(1, -2)]),
         to_dict(2, [NoWallets EXCEPT !["USD"] = Zero]) >> }

\* _initialize_rates: the rates of a service constructed without a rates
\* file (BTC_USD 59337.21 kept to the digits of a model float)
initialize_rates ==
    [p \in Pairs |->
        CASE p = <<"EUR", "USD">> -> [rate |-> Dec(10786, -4), updated_at |-> 0]
          [] p = <<"BTC", "USD">> -> [rate |-> Dec(59337, 0), updated_at |-> 0]
          [] OTHER -> NoRate]

\* a rates file in which 1 BTC = 60000 USD, loaded by _load_rates
snapshot_rates ==
    [p \in Pairs |->
        IF p = <<"BTC", "USD">> THEN [rate |-> Dec(6, 4), updated_at |-> 0]
        ELSE NoRate]

VARIABLES
    w_balance,     \* Wallet._balance
    w_call,        \* the last call on the wallet: [op, amount, before, ret]
    now,           \* time.time(), datetime.now()
    portfolios,    \* the portfolios file
    pf_cache,      \* DatabaseManager._cache entry of the portfolios file
    transactions,  \* the transactions file, a list of records
    svc,           \* ExchangeRateService: _rates_cache["rates"], _cache_timestamp
    memo,          \* cache of cache_result around get_rate
    faults,        \* failed writes so far
    pf_start,      \* the portfolios file at construction
    th,            \* per thread: the call in progress, its locals, its outcome
    lock,          \* DatabaseManager._lock: the thread that holds it, or "free"
    lk,            \* per thread: its section of DatabaseManager and the user
    tx_ok,         \* the transactions file holds JSON
    tx,            \* per thread: the create_transaction call in progress
    gr,            \* the last call of ExchangeRateService.get_rate
    snapshot,      \* the parser service's rates file (RatesStorage.rates_file)
    history,       \* the parser service's history file, a list of records
    upd,           \* the last RatesUpdater.run_update: its inputs and result
    files,         \* the data directory: per path, whether the file exists and its text
    aw,            \* the RatesStorage._atomic_write call in progress
    ld,            \* the last RatesStorage.load_current_rates of a reader
    sched,         \* ParserScheduler: its fields, its jobs and its threads
    rq,            \* the last BaseApiClient._make_request: its attempts
    rf,            \* the refreshes in progress: per thread its place in run_update
    db             \* a DatabaseManager: a file, its cache, its lock, its callers

walletVars == <<w_balance, w_call>>
tradeVars == <<now, portfolios, pf_cache, transactions, svc, memo,
               faults, pf_start, th>>
parserVars == <<files, aw, ld, sched, rq, rf, db>>
otherVars == <<lock, lk, tx_ok, tx, gr, snapshot, history, upd, parserVars>>
vars == <<w_balance, w_call, now, portfolios, pf_cache,
          transactions, svc, memo, faults, pf_start, th,
          lock, lk, tx_ok, tx, gr, snapshot, history, upd, parserVars>>

NoCall == [op |-> "none", amount |-> Zero, before |-> Zero, ret |-> "None"]

\* a thread outside any call.  Besides the arguments and the locals of the
\* call the record keeps what the call has done so far: existed (the user
\* had a portfolio when the call began), quoted (get_rate was called),
\* rates_changed (that get_rate changed the rates), wrote (the call changed
\* the portfolios file), write_failed (a write of the call failed), settled
\* (update_data was called for the transfer).
Idle ==
    [pc |-> "idle", op |-> "none", user_id |-> 0, currency |-> "USD",
     other |-> "USD", amount |-> Zero, rate |-> Zero, cost |-> Zero,
     fee |-> Zero, total |-> Zero, site |-> "none", portfolio |-> NoWallets,
     exc |-> "None", result |-> "None", existed |-> FALSE,
     quoted |-> FALSE, rates_changed |-> FALSE, wrote |-> FALSE,
     write_failed |-> FALSE, settled |-> FALSE,
     fee_given |-> FALSE, fee_percent |-> 0]

WalletStill == w_balance = Zero /\ w_call = NoCall

TradeInit ==
    /\ now = 0
    /\ portfolios \in {[ok |-> TRUE, data |-> d] : d \in InitialStores}
    /\ pf_cache = NoCache
    /\ transactions = <<>>
    /\ svc \in {[rates |-> r, ts |-> 0] : r \in {initialize_rates, snapshot_rates}}
    /\ memo = [p \in Registry \X Registry |-> NoMemo]
    /\ faults = 0
    /\ pf_start = portfolios.data
    /\ th = [t \in Threads |-> Idle]

TradeStill ==
    /\ now = 0
    /\ portfolios = [ok |-> TRUE, data |-> <<>>]
    /\ pf_cache = NoCache
    /\ transactions = <<>>
    /\ svc = [rates |-> initialize_rates, ts |-> 0]
    /\ memo = [p \in Registry \X Registry |-> NoMemo]
    /\ faults = 0
    /\ pf_start = <<>>
    /\ th = [t \in Threads |-> Idle]

(***************************************************************************)
(* The state of the lock, the ledger, the last get_rate and the parser     *)
(* service while no call of theirs has been made.                          *)
(***************************************************************************)

\* a thread outside the sections of DatabaseManager
LkIdle == [pc |-> "out", user_id |-> 0, call |-> "none", section |-> "none"]

\* a thread outside create_transaction
TxIdle ==
    [pc |-> "idle", user_id |-> 0, type |-> "none", transaction_id |-> 0,
     exc |-> "None", result |-> "None"]

\* no get_rate call yet.  Of a call the record keeps the arguments, the
\* time, the outcome (rate, exc, depth, calls, as_of), whether cache_result
\* answered it (hit) and whether it changed the stored rates (changed)
NoGet ==
    [op |-> "none", from |-> "USD", to |-> "USD", at |-> 0, rate |-> Zero,
     exc |-> "None", depth |-> 0, calls |-> 0, as_of |-> 0, hit |-> FALSE,
     changed |-> FALSE]

\* no rates file, no run_update yet
\* a dict without keys
EmptyDict == [k \in {} |-> 0]
\* the rates file before the parser service has written it
NoSnapshot == [exists |-> FALSE, pairs |-> EmptyDict, source |-> "none",
               last_refresh |-> -1]
\* no run_update made yet
NoUpdate ==
    [op |-> "none", source_filter |-> "None", force_update |-> FALSE,
     responses |-> EmptyDict, success |-> FALSE, total_rates |-> 0,
     updated_pairs |-> {}, failed_sources |-> <<>>, errors |-> 0,
     saved |-> FALSE, at |-> 0, us |-> 0, untrimmed |-> <<>>, runs |-> 0]

\* RatesStorage.rates_file and RatesStorage.history_file, and the n-th
\* temporary file of the data directory.  A path is a name and a number
MaxWrites == 2
rates_file == [name |-> "rates.json", n |-> 0]
history_file == [name |-> "exchange_rates.json", n |-> 0]
Targets == {rates_file, history_file}
Paths == Targets \cup {[name |-> ".tmp", n |-> n] : n \in 1..MaxWrites}
\* what load_current_rates returns for a missing file
EmptyRates == [pairs |-> EmptyDict, metadata |-> EmptyDict]
\* a file's text is the first len chunks of json.dump(doc); Chunks chunks
\* make the whole text
Chunks == 2
NoText == [doc |-> EmptyRates, len |-> 0]
NoFile == [exists |-> FALSE, text |-> NoText]
NoFiles == [p \in Paths |-> NoFile]
\* no _atomic_write in progress.  Of a write the record keeps the arguments
\* (file_path, data), the temporary file, the target as the call found it
\* (old) and what the call raised
NoWrite ==
    [pc |-> "idle", file_path |-> rates_file, tmp_path |-> rates_file,
     data |-> EmptyRates, old |-> NoFile, exc |-> "None", writes |-> 0]
\* no load made yet.  Of a load the record keeps the path, the outcome (data,
\* exc), the file as the call found it (found), whether a write of the same
\* file was in progress (during), and that write's old file and new data
NoLoad ==
    [op |-> "none", path |-> rates_file, data |-> EmptyRates, exc |-> "None",
     found |-> NoFile, during |-> FALSE, old |-> NoFile, new |-> EmptyRates]
\* the scheduler threads a model run starts, the refresh cycles it runs
MaxStarts == 2
MaxCycles == 2
\* no refresh cycle yet.  Of a cycle the record keeps its kind (scheduled or
\* immediate), its thread, what the updater's run_update did (outcome), the
\* callbacks that raise (raises), the calls made in their order, what the
\* cycle raised and what run_update returned
NoCycle ==
    [kind |-> "none", thread |-> 0, outcome |-> "success", raises |-> {},
     calls |-> <<>>, exc |-> "None", ret |-> FALSE]
\* a scheduler as ParserScheduler.__init__ leaves it: _is_running,
\* _stop_event, the jobs of the schedule module, per thread started its
\* place ("none": not started or ended, "loop": in _run_scheduler between
\* two jobs, "cycle": in _scheduled_update), the place of a stop() call, and
\* of the last call its name, what it found (before) and what it raised
NoScheduler ==
    [is_running |-> FALSE, stop_event |-> FALSE, jobs |-> 0,
     thread |-> [i \in 1..MaxStarts |-> "none"], starts |-> 0,
     stop_pc |-> "out", stopped |-> FALSE, immediate |-> 0,
     op |-> "none", exc |-> "None",
     before |-> [is_running |-> FALSE, jobs |-> 0, starts |-> 0,
                 immediate |-> 0],
     cycle |-> NoCycle, cycles |-> 0]
\* no request made yet.  Of a _make_request call the record keeps the client,
\* what the server did at each attempt (answers), the attempts made, the
\* sleeps between them, what the call raised, and whether run_update put
\* the client on failed_sources
NoRequest ==
    [op |-> "none", source |-> "none", answers |-> <<>>, attempts |-> 0,
     sleeps |-> <<>>, exc |-> "None", failed |-> FALSE]
\* the threads that call RatesUpdater.run_update at the same time: the
\* scheduler thread and a thread of the program
Refreshers == {"scheduled", "manual"}
\* a thread outside run_update.  Of a call the record keeps its place, the
\* source and the rates it saves, the history it loaded, whether the history
\* file parsed when it was loaded (found_ok) and the records it held then
\* (found), what the call wrote, what storage raised and the result's success
RfIdle ==
    [pc |-> "idle", source |-> "none", rates |-> EmptyDict, loaded |-> <<>>,
     found_ok |-> TRUE, found |-> <<>>, wrote_rates |-> FALSE,
     wrote_history |-> FALSE, trimmed |-> FALSE, exc |-> "None",
     success |-> FALSE]
\* no refresh yet: the history file parses (ok), the records _load_history
\* gave at the start, the threads
NoRefresh ==
    [ok |-> TRUE, start |-> <<>>, th |-> [r \in Refreshers |-> RfIdle]]
\* a thread outside DatabaseManager.  Of a call the record keeps its place,
\* the items the file held when the call began (began), the data it read,
\* the item it inserts and what it returned
DbIdle ==
    [pc |-> "idle", op |-> "none", began |-> 0, data |-> <<>>, item |-> 0,
     ret |-> <<>>]
\* a DatabaseManager after construction: the list its file holds, _cache
\* (has: the file's path is a key of it), _lock, the insert calls made, the
\* items of the inserts that have written, the threads
NoDb ==
    [file |-> <<>>, cache |-> [has |-> FALSE, data |-> <<>>], lock |-> "free",
     calls |-> 0, written |-> <<>>, th |-> [t \in Threads |-> DbIdle]]

OtherStill ==
    /\ lock = "free"
    /\ lk = [t \in Threads |-> LkIdle]
    /\ tx_ok = TRUE
    /\ tx = [t \in Threads |-> TxIdle]
    /\ gr = NoGet
    /\ snapshot = NoSnapshot
    /\ history = <<>>
    /\ upd = NoUpdate
    /\ files = NoFiles
    /\ aw = NoWrite
    /\ ld = NoLoad
    /\ sched = NoScheduler
    /\ rq = NoRequest
    /\ rf = NoRefresh
    /\ db = NoDb

(***************************************************************************)
(* Wallet calls.                                                           *)
(***************************************************************************)

WalletInit ==
    /\ w_balance \in WalletStart
    /\ w_call = NoCall
    /\ TradeStill
    /\ OtherStill

WalletDeposit ==
    \E amount \in WalletAmounts :
        /\ DecLess(w_balance, Dec(MaxWalletBalance, 0))
        /\ LET r == deposit(w_balance, amount)
           IN  /\ w_balance' = r.balance
               /\ w_call' = [op |-> "deposit", amount |-> amount,
                             before |-> w_balance, ret |-> r.ret]
        /\ UNCHANGED <<tradeVars, otherVars>>

WalletWithdraw ==
    \E amount \in WalletAmounts :
        /\ LET r == withdraw(w_balance, amount)
           IN  /\ w_balance' = r.balance
               /\ w_call' = [op |-> "withdraw", amount |-> amount,
                             before |-> w_balance, ret |-> r.ret]
        /\ UNCHANGED <<tradeVars, otherVars>>

WalletNext == WalletDeposit \/ WalletWithdraw

SpecWallet == WalletInit /\ [][WalletNext]_vars

(***************************************************************************)
(* TradeService.buy_currency and sell_currency, one action per section of  *)
(* the call that touches shared state.  The sections of DatabaseManager    *)
(* run under its lock, so each is one step; the steps of two threads       *)
(* interleave freely.                                                      *)
(***************************************************************************)

\* the call ends by raising exc; the caller sees what log_action lets out
raise(rec, exc) ==
    [rec EXCEPT !.pc = "returned", !.exc = exc,
                !.result = log_action(exc)]

\* buy_currency / sell_currency after get_user_portfolio returned the
\* wallets.  At the first load the funds are checked and the call goes on to
\* ensure_wallet_exists; inside ensure_wallet_exists the receiving wallet is
\* looked up and, when absent, added to this copy of the portfolio, which
\* save_portfolio then writes.
after_portfolio(rec, wallets) ==
    IF rec.site = "load"
    THEN LET exc == funds_check(rec.op, wallets, rec.currency, rec.other,
                                rec.amount, rec.total)
         IN  IF exc # "None" THEN raise(rec, exc)
             ELSE [rec EXCEPT !.pc = "find", !.site = "ensure"]
    ELSE LET code == credit_code(rec.op, rec.currency, rec.other)
         IN  IF wallets[code] # NoWallet
             THEN [rec EXCEPT !.pc = "settle", !.portfolio = wallets]
             ELSE [rec EXCEPT !.pc = "save",
                              !.portfolio = add_currency(wallets, code)]

\* the write faults a step may meet
MayFail == IF faults < MaxFaults THEN Faults ELSE {"none"}

\* the fee_percent argument: None (not given), or a percentage
NoFee == [given |-> FALSE, percent |-> 0]

\* a caller enters buy_currency or sell_currency with one of the fee_percent
\* arguments given; the codes and the amount are validated
CallWith(t, fees) ==
    /\ th[t].pc = "idle"
    /\ \E op \in {"buy", "sell"}, user_id \in Users, currency \in Codes,
          amount \in Amounts, fee \in fees :
          LET rec == [Idle EXCEPT !.op = op, !.user_id = user_id,
                                  !.currency = currency,
                                  !.other = default_base_currency,
                                  !.amount = amount,
                                  !.fee_given = fee.given,
                                  !.fee_percent = fee.percent,
                                  !.existed =
                                      find_one(portfolios.data, user_id) # 0]
              exc == validate(op, currency, default_base_currency, amount)
          IN  th' = [th EXCEPT ![t] =
                        IF exc # "None" THEN raise(rec, exc)
                        ELSE [rec EXCEPT !.pc = "quote"]]
    /\ UNCHANGED <<now, portfolios, pf_cache, transactions, svc,
                   memo, faults, pf_start, walletVars, otherVars>>

\* a caller enters buy_currency or sell_currency without fee_percent
Call(t) == CallWith(t, {NoFee})

\* the rate is quoted and cost, fee and total are computed
Quote(t) ==
    /\ th[t].pc = "quote"
    /\ \E change \in Draws(svc, memo,
                            quote_pair(th[t].op, th[t].currency, th[t].other)[1],
                            quote_pair(th[t].op, th[t].currency, th[t].other)[2],
                            now) :
          LET rec == th[t]
              pair == quote_pair(rec.op, rec.currency, rec.other)
              r == get_rate(svc, memo, pair[1], pair[2], change, now)
              a == IF rec.fee_given
                   THEN amounts_fee(rec.op, rec.amount, r.rate, rec.fee_percent)
                   ELSE amounts(rec.op, rec.amount, r.rate)
          IN  /\ svc' = r.svc
              /\ memo' = r.memo
              /\ th' = [th EXCEPT ![t] =
                           [rec EXCEPT !.pc = "find", !.site = "load",
                                       !.rate = r.rate, !.cost = a.cost,
                                       !.fee = a.fee, !.total = a.total,
                                       !.quoted = TRUE,
                                       !.rates_changed =
                                           r.svc.rates # svc.rates]]
    /\ UNCHANGED <<now, portfolios, pf_cache, transactions,
                   faults, pf_start, walletVars, otherVars>>

\* get_user_portfolio, the lookup: find_one on the (cached) portfolios file
FindOne(t) ==
    /\ th[t].pc = "find"
    /\ LET rec == th[t]
           rd == read_data(portfolios, pf_cache, TRUE, now)
           i == find_one(rd.data, rec.user_id)
       IN  /\ pf_cache' = rd.cache
           /\ th' = [th EXCEPT ![t] =
                        IF rd.exc # "None" THEN raise(rec, rd.exc)
                        ELSE IF i = 0 THEN [rec EXCEPT !.pc = "insert"]
                        ELSE after_portfolio(rec, rd.data[i].wallets)]
    /\ UNCHANGED <<now, portfolios, transactions, svc, memo,
                   faults, pf_start, walletVars, otherVars>>

\* get_user_portfolio, no record found: a portfolio with the default base
\* wallet is inserted
Insert(t) ==
    /\ th[t].pc = "insert"
    /\ \E fault \in MayFail :
          LET rec == th[t]
              wallets == add_currency(NoWallets, default_base_currency)
              w == insert(portfolios, pf_cache, to_dict(rec.user_id, wallets),
                          fault, now)
              rec1 == [rec EXCEPT !.wrote = @ \/ w.file # portfolios,
                                  !.write_failed = @ \/ fault # "none"]
          IN  /\ portfolios' = w.file
              /\ pf_cache' = w.cache
              /\ faults' = IF fault = "none" THEN faults ELSE faults + 1
              /\ th' = [th EXCEPT ![t] =
                           IF w.exc # "None" THEN raise(rec1, w.exc)
                           ELSE after_portfolio(rec1, wallets)]
    /\ UNCHANGED <<now, transactions, svc, memo, pf_start,
                   walletVars, otherVars>>

\* ensure_wallet_exists, wallet absent: save_portfolio writes the copy with
\* the new wallet; add_currency returned None, so ensure_wallet_exists
\* returns None and the caller's currency_wallet.balance raises
\* AttributeError
SavePortfolio(t) ==
    /\ th[t].pc = "save"
    /\ \E fault \in MayFail :
          LET rec == th[t]
              w == update(portfolios, pf_cache, rec.user_id,
                          to_dict(rec.user_id, rec.portfolio), fault, now)
              rec1 == [rec EXCEPT !.wrote = @ \/ w.file # portfolios,
                                  !.write_failed = @ \/ fault # "none"]
          IN  /\ portfolios' = w.file
              /\ pf_cache' = w.cache
              /\ faults' = IF fault = "none" THEN faults ELSE faults + 1
              /\ th' = [th EXCEPT ![t] =
                           raise(rec1,
                                 IF w.exc # "None" THEN w.exc
                                 ELSE "AttributeError")]
    /\ UNCHANGED <<now, transactions, svc, memo, pf_start,
                   walletVars, otherVars>>

\* the transfer: update_data(portfolios_file, execute_buy / execute_sell)
Settle(t) ==
    /\ th[t].pc = "settle"
    /\ th' = [th EXCEPT ![t] =
                 raise([th[t] EXCEPT !.settled = TRUE],
                       update_data_closure(portfolios, pf_cache, now))]
    /\ UNCHANGED <<now, portfolios, pf_cache, transactions, svc,
                   memo, faults, pf_start, walletVars, otherVars>>

\* time passes
Tick ==
    /\ \E d \in TimeSteps : now + d <= MaxTime /\ now' = now + d
    /\ UNCHANGED <<portfolios, pf_cache, transactions, svc, memo,
                   faults, pf_start, th, walletVars, otherVars>>

Init == TradeInit /\ WalletStill /\ OtherStill

Next ==
    \/ \E t \in Threads : Call(t)
    \/ \E t \in Threads : Quote(t)
    \/ \E t \in Threads : FindOne(t)
    \/ \E t \in Threads : Insert(t)
    \/ \E t \in Threads : SavePortfolio(t)
    \/ \E t \in Threads : Settle(t)
    \/ Tick

Spec == Init /\ [][Next]_vars

(***************************************************************************)
(* The same calls made by one thread with the fee_percent argument given.  *)
(***************************************************************************)

\* fee_percent values a caller passes: below 0, within 0..100, above 100
FeePercents == {-10, 50, 200}
FeeArgs == {NoFee} \cup {[given |-> TRUE, percent |-> p] : p \in FeePercents}

\* the thread that trades
Trader == "t1"

\* buy_currency(..., fee_percent) or sell_currency(..., fee_percent)
CallFee == CallWith(Trader, FeeArgs)

FeeNext ==
    \/ CallFee
    \/ Quote(Trader)
    \/ FindOne(Trader)
    \/ Insert(Trader)
    \/ SavePortfolio(Trader)
    \/ Settle(Trader)
    \/ Tick

SpecFee == Init /\ [][FeeNext]_vars

(***************************************************************************)
(* infra/database.py: DatabaseManager._lock.  DatabaseManager is a         *)
(* singleton and every section of it runs inside `with self._lock`, one    *)
(* reentrant lock for all files and all users.  The threads below run the  *)
(* database calls of a trade of a user whose portfolio and wallets exist:  *)
(* find_one (get_user_portfolio), which goes through read_data with the    *)
(* cache, and update_data(portfolios_file, execute_buy).                   *)
(***************************************************************************)

\* the users whose trades run side by side
LockUsers == {1, 2}
\* the database calls of a trade
DbCalls == {"find_one", "update_data"}

\* the first section of a call that takes the lock: read_data begins with
\* _get_cached_data, update_data with its own `with self._lock`
first_section(call) ==
    IF call = "find_one" THEN "_get_cached_data" ELSE "update_data"

\* the section that follows a section of read_data, "none" at the end of
\* the call: after a miss of the cache _read_file, then _set_cached_data
next_section(section, hit) ==
    CASE section = "_get_cached_data" -> IF hit THEN "none" ELSE "_read_file"
      [] section = "_read_file" -> "_set_cached_data"
      [] OTHER -> "none"

\* a trade of user_id reaches a database call and asks for the lock
LockCall(t) ==
    /\ lk[t].pc = "out"
    /\ \E user_id \in LockUsers, call \in DbCalls :
          lk' = [lk EXCEPT ![t] = [pc |-> "wait", user_id |-> user_id,
                                   call |-> call,
                                   section |-> first_section(call)]]
    /\ UNCHANGED <<lock, tradeVars, walletVars, tx_ok, tx, gr,
                   snapshot, history, upd, parserVars>>

\* `with self._lock`: the thread enters its section when no other thread
\* holds the lock
LockAcquire(t) ==
    /\ lk[t].pc = "wait"
    /\ lock = "free"
    /\ lock' = t
    /\ lk' = [lk EXCEPT ![t].pc = "in"]
    /\ UNCHANGED <<tradeVars, walletVars, tx_ok, tx, gr,
                   snapshot, history, upd, parserVars>>

\* the section runs to its end and the lock is released.  _set_cached_data
\* stores the list read; update_data reads the file, calls
\* updater_func(data), which raises TypeError for execute_buy, and leaves
\* the `with` block without having written
LockRelease(t) ==
    /\ lk[t].pc = "in"
    /\ lock = t
    /\ lock' = "free"
    /\ LET section == lk[t].section
           next == next_section(section, get_cached_data(pf_cache, now))
       IN  /\ pf_cache' = IF section = "_set_cached_data"
                          THEN [valid |-> TRUE, data |-> portfolios.data,
                                at |-> now]
                          ELSE pf_cache
           /\ lk' = [lk EXCEPT ![t] =
                        IF next = "none" THEN LkIdle
                        ELSE [@ EXCEPT !.pc = "wait", !.section = next]]
    /\ UNCHANGED <<now, portfolios, transactions, svc, memo, faults,
                   pf_start, th, walletVars, tx_ok, tx, gr,
                   snapshot, history, upd, parserVars>>

LockInit == TradeStill /\ WalletStill /\ OtherStill

LockNext ==
    \/ \E t \in Threads : LockCall(t)
    \/ \E t \in Threads : LockAcquire(t)
    \/ \E t \in Threads : LockRelease(t)
    \/ Tick

SpecLock == LockInit /\ [][LockNext]_vars

(***************************************************************************)
(* core/usecases.py: TransactionManager.create_transaction, as called from *)
(* execute_buy, execute_sell and do_deposit.  The transactions file is the *)
(* list `transactions`; tx_ok is FALSE when its text is not JSON.          *)
(***************************************************************************)

\* the type of a transaction, by the operation that creates it
TxTypes == {"buy", "sell", "deposit"}
\* create_transaction is not called once the file holds this many records
MaxTx == 3

\* Transaction(transaction_id=..., timestamp=..., **kwargs).to_dict(): the
\* record appended to the file
Transaction(transaction_id, timestamp, user_id, type) ==
    [transaction_id |-> transaction_id, user_id |-> user_id, type |-> type,
     timestamp |-> timestamp]

\* max([t.get("transaction_id", 0) for t in transactions], default=0) + 1
RECURSIVE max_transaction_id(_)
max_transaction_id(list) ==
    IF list = <<>> THEN 0
    ELSE Max(Head(list).transaction_id, max_transaction_id(Tail(list)))

next_transaction_id(list) == max_transaction_id(list) + 1

\* create_transaction up to the ID: the file is read (outside any lock held
\* across the call) and the next ID is computed from the list read
TxRead(t) ==
    /\ tx[t].pc \in {"idle", "returned"}
    /\ Len(transactions) < MaxTx
    /\ \E user_id \in Users, type \in TxTypes :
          LET rd == read_data([ok |-> tx_ok, data |-> transactions],
                              NoCache, FALSE, now)
              rec == [TxIdle EXCEPT !.user_id = user_id, !.type = type]
          IN  tx' = [tx EXCEPT ![t] =
                        IF rd.exc # "None"
                        THEN [rec EXCEPT !.pc = "returned", !.exc = rd.exc,
                                         !.result = log_action(rd.exc)]
                        ELSE [rec EXCEPT !.pc = "insert",
                                         !.transaction_id =
                                             next_transaction_id(rd.data)]]
    /\ UNCHANGED <<tradeVars, walletVars, lock, lk, tx_ok, gr,
                   snapshot, history, upd, parserVars>>

\* create_transaction from the ID on: the Transaction is built and
\* db.insert appends its record to the file as it is then
TxInsert(t) ==
    /\ tx[t].pc = "insert"
    /\ \E fault \in MayFail :
          LET rec == tx[t]
              w == insert([ok |-> tx_ok, data |-> transactions], NoCache,
                          Transaction(rec.transaction_id, now, rec.user_id,
                                      rec.type),
                          fault, now)
          IN  /\ transactions' = w.file.data
              /\ tx_ok' = w.file.ok
              /\ faults' = IF fault = "none" THEN faults ELSE faults + 1
              /\ tx' = [tx EXCEPT ![t] =
                           [rec EXCEPT !.pc = "returned", !.exc = w.exc,
                                       !.result = log_action(w.exc)]]
    /\ UNCHANGED <<now, portfolios, pf_cache, svc, memo, pf_start, th,
                   walletVars, lock, lk, gr, snapshot, history, upd, parserVars>>

LedgerInit == TradeStill /\ WalletStill /\ OtherStill

LedgerNext ==
    \/ \E t \in Threads : TxRead(t)
    \/ \E t \in Threads : TxInsert(t)
    \/ Tick

SpecLedger == LedgerInit /\ [][LedgerNext]_vars

(***************************************************************************)
(* core/usecases.py: ExchangeRateService.get_rate, called over time.       *)
(***************************************************************************)

\* the pairs asked for: a currency against itself, a pair that
\* _initialize_rates stores, the inverse of one, and a pair with no rate
\* anywhere; on a service without stored rates the second and the third
\* are answered from the built-in table
RatePairs ==
    { <<"RUB", "RUB">>, <<"EUR", "USD">>, <<"USD", "BTC">>, <<"USD", "RUB">> }

\* the instants at which get_rate is called: construction, and the instants
\* at which the rates stored at construction reach and pass the age rates_ttl
RateInstants == {0, 300, 301}

\* a rates file without the key "rates" (the parser service writes "pairs"
\* and "metadata"): the service is constructed with no rate stored
empty_rates == [p \in Pairs |-> NoRate]

RatesInit ==
    /\ now = 0
    /\ portfolios = [ok |-> TRUE, data |-> <<>>]
    /\ pf_cache = NoCache
    /\ transactions = <<>>
    /\ svc \in {[rates |-> r, ts |-> 0] : r \in {initialize_rates, empty_rates}}
    /\ memo = [p \in Registry \X Registry |-> NoMemo]
    /\ faults = 0
    /\ pf_start = <<>>
    /\ th = [t \in Threads |-> Idle]
    /\ WalletStill
    /\ OtherStill

\* a caller asks for a rate
GetRate ==
    \E pair \in RatePairs :
        \E change \in Draws(svc, memo, pair[1], pair[2], now) :
            \E r \in {get_rate(svc, memo, pair[1], pair[2], change, now)} :
                /\ svc' = r.svc
                /\ memo' = r.memo
                /\ gr' = [op |-> "get_rate", from |-> pair[1], to |-> pair[2],
                          at |-> now, rate |-> r.rate, exc |-> r.exc,
                          depth |-> r.depth, calls |-> r.calls,
                          as_of |-> r.as_of,
                          hit |-> cache_hit(memo, pair[1], pair[2], now),
                          changed |-> r.svc # svc]
                /\ UNCHANGED <<now, portfolios, pf_cache, transactions, faults,
                               pf_start, th, walletVars, lock, lk, tx_ok, tx,
                               snapshot, history, upd, parserVars>>

\* time passes to the next instant
RateTick ==
    /\ \E i \in RateInstants :
          /\ i > now
          /\ \A j \in RateInstants : j > now => i <= j
          /\ now' = i
    /\ UNCHANGED <<portfolios, pf_cache, transactions, svc, memo, faults,
                   pf_start, th, walletVars, otherVars>>

RatesNext == GetRate \/ RateTick

SpecRates == RatesInit /\ [][RatesNext]_vars

(***************************************************************************)
(* parser_service: RatesStorage (storage.py), the API clients              *)
(* (api_clients.py) and RatesUpdater.run_update (updater.py).  A pair key  *)
(* "<FROM>_<TO>" is the tuple <<from, to>>; a dict is a function on its    *)
(* keys.  A rate of the parser service is the float the client returned,   *)
(* kept as an integer.  A timestamp is the second it was taken in, with    *)
(* tz = "Z" for the strings of datetime.utcnow().isoformat() + "Z".        *)
(***************************************************************************)

\* ParserConfig.CACHE_TTL_SECONDS
CACHE_TTL_SECONDS == 300
\* save_to_history: self._trim_history(1000), the records the history keeps.
\* The model keeps fewer
history_max_records == 4
\* run_update calls made
MaxUpdates == 2

\* self.clients, in the order _initialize_clients fills it
Sources == <<"coingecko", "exchangerate">>

\* the pairs a client can return: "<CRYPTO>_USD" for the codes of
\* CRYPTO_ID_MAP (CoinGecko), "<FIAT>_<base_code>" for the codes of
\* FIAT_CURRENCIES (ExchangeRate-API)
SourcePairs ==
    [coingecko |-> {<<"BTC", "USD">>, <<"ETH", "USD">>},
     exchangerate |-> {<<"EUR", "USD">>}]

\* the order in which the pairs of a merged dict are iterated
PairOrder == << <<"BTC", "USD">>, <<"ETH", "USD">>, <<"EUR", "USD">> >>

\* float(rate) of what a provider sent: no client checks the sign
ProviderRates == {0, 2}

\* what fetch_rates does: it raises ApiRequestError (ok = FALSE), or returns
\* a dict that is not empty
FetchFailed == [ok |-> FALSE, rates |-> EmptyDict]
Responses(source) ==
    {FetchFailed} \cup
    {[ok |-> TRUE, rates |-> r] :
        r \in UNION {[S -> ProviderRates] :
                        S \in SUBSET SourcePairs[source] \ {{}}}}

\* _select_clients: the names of the clients used
select_clients(source_filter) ==
    IF source_filter \in {"coingecko", "exchangerate"} THEN {source_filter}
    ELSE {"coingecko", "exchangerate"}

\* RatesStorage.get_rate: the record of the pair, None when it has none
NoPair == [rate |-> 0, updated_at |-> -1, tz |-> "none", source |-> "none"]
RatesStorage_get_rate(snap, pair) ==
    IF pair \in DOMAIN snap.pairs THEN snap.pairs[pair] ELSE NoPair

\* RatesStorage.is_rate_fresh.  updated_at_str.replace('Z', '+00:00') makes
\* fromisoformat return a timezone-aware datetime for a string that ends in
\* "Z"; datetime.utcnow() is naive, and their difference raises TypeError,
\* which `except Exception` answers with False
RatesStorage_is_rate_fresh(snap, pair, time) ==
    IF RatesStorage_get_rate(snap, pair) = NoPair THEN FALSE
    ELSE IF RatesStorage_get_rate(snap, pair).tz = "Z" THEN FALSE
    ELSE time - RatesStorage_get_rate(snap, pair).updated_at <= CACHE_TTL_SECONDS

\* a merge that keeps only the dict of the last client that answered
dict_keep_last(all_rates, rates) == rates
\* dict.update: all_rates.update(rates)
dict_update(all_rates, rates) == rates @@ all_rates

\* run_update: the loop over the clients, all_rates after the first i of them
RECURSIVE fetch_all_rates(_, _, _)
fetch_all_rates(i, clients, responses) ==
    IF i = 0 THEN EmptyDict
    ELSE IF Sources[i] \in clients /\ responses[Sources[i]].ok
    THEN dict_update(fetch_all_rates(i - 1, clients, responses),
                     responses[Sources[i]].rates)
    ELSE fetch_all_rates(i - 1, clients, responses)

\* a run_update that does not record the clients that failed
failed_sources_unrecorded(clients, responses) == <<>>
\* run_update: result.failed_sources, a client is appended when its
\* fetch_rates raises
failed_sources(clients, responses) ==
    SelectSeq(Sources, LAMBDA s : s \in clients /\ ~responses[s].ok)

\* run_update: the pairs to write, all of them with force_update, otherwise
\* those that is_rate_fresh does not report fresh
rates_to_update(snap, all_rates, force_update, time) ==
    [p \in {q \in DOMAIN all_rates :
               force_update \/ ~RatesStorage_is_rate_fresh(snap, q, time)}
        |-> all_rates[p]]

\* RatesStorage.save_current_rates: the file is replaced (_atomic_write) by
\* the records of the rates given
save_current_rates(rates, source, time) ==
    [exists |-> TRUE,
     pairs |-> [p \in DOMAIN rates |->
                   [rate |-> rates[p], updated_at |-> time, tz |-> "Z",
                    source |-> source]],
     source |-> source,
     last_refresh |-> time]

\* a reading of datetime.utcnow(): the second and the microsecond in it
utcnow(time, us) == [s |-> time, us |-> us]

\* the order of the strings utcnow().isoformat() + "Z" as sort compares them.
\* isoformat writes "...:SS.ffffff" and, when the microsecond is 0, "...:SS"
\* without a fraction; after the same second the strings go on with "." or
\* with "Z", and "." < "Z": the string of a whole second comes after those of
\* every later instant of that second
isoformat_key(timestamp) ==
    timestamp.s * 2000000 + (IF timestamp.us = 0 THEN 1000000 ELSE timestamp.us)

\* list.sort on [key, item] pairs, ascending and stable: an element is put
\* after the elements whose key is not greater
insert_by_key(sorted, e) ==
    Eval(LAMBDA n : SubSeq(sorted, 1, n) \o <<e>> \o SubSeq(sorted, n + 1, Len(sorted)),
         Cardinality({i \in 1..Len(sorted) : sorted[i].key <= e.key}))
RECURSIVE list_sort(_)
list_sort(list) ==
    IF list = <<>> THEN <<>>
    ELSE insert_by_key(list_sort(SubSeq(list, 1, Len(list) - 1)), list[Len(list)])

\* history.sort(key=lambda x: x.get("timestamp", ""))
sort_by_timestamp(hist) ==
    Eval(LAMBDA sorted : [i \in 1..Len(sorted) |-> sorted[i].item],
         list_sort([j \in 1..Len(hist) |->
                       [key |-> isoformat_key(hist[j].timestamp),
                        item |-> hist[j]]]))

\* _trim_history: a history longer than max_records is sorted by timestamp
\* and its last max_records records are written back
trim_history(hist, max_records) ==
    IF Len(hist) > max_records
    THEN SubSeq(sort_by_timestamp(hist), Len(hist) - max_records + 1, Len(hist))
    ELSE hist

\* RatesStorage.save_to_history: one record per rate is appended, in the
\* order of the dict
RECURSIVE history_append(_, _, _, _, _)
history_append(hist, i, rates, source, timestamp) ==
    IF i > Len(PairOrder) THEN hist
    ELSE history_append(
             IF PairOrder[i] \in DOMAIN rates
             THEN Append(hist, [from_currency |-> PairOrder[i][1],
                                to_currency |-> PairOrder[i][2],
                                rate |-> rates[PairOrder[i]],
                                timestamp |-> timestamp, source |-> source])
             ELSE hist,
             i + 1, rates, source, timestamp)
save_to_history(hist, rates, source, timestamp) ==
    trim_history(history_append(hist, 1, rates, source, timestamp),
                 history_max_records)

\* run_update: len(result.errors), a message per client that raised and one
\* more when no client returned a rate
result_errors(clients, responses, all_rates) ==
    Len(failed_sources(clients, responses))
    + (IF DOMAIN all_rates = {} THEN 1 ELSE 0)

\* run_update, after the clients have answered: the UpdateResult, and the
\* two files as the call leaves them
run_update_save(snap, hist, clients, responses, all_rates, to_update, force_update, time) ==
    IF DOMAIN all_rates = {}
    THEN [success |-> FALSE, total_rates |-> 0, updated_pairs |-> {},
          failed_sources |-> failed_sources(clients, responses),
          errors |-> result_errors(clients, responses, all_rates),
          saved |-> FALSE, snapshot |-> snap, history |-> hist]
    ELSE IF DOMAIN to_update = {} /\ ~force_update
    THEN [success |-> TRUE, total_rates |-> Cardinality(DOMAIN all_rates),
          updated_pairs |-> {},
          failed_sources |-> failed_sources(clients, responses),
          errors |-> result_errors(clients, responses, all_rates),
          saved |-> FALSE, snapshot |-> snap, history |-> hist]
    ELSE [success |-> TRUE, total_rates |-> Cardinality(DOMAIN all_rates),
          updated_pairs |-> DOMAIN to_update,
          failed_sources |-> failed_sources(clients, responses),
          errors |-> result_errors(clients, responses, all_rates),
          saved |-> TRUE,
          snapshot |-> save_current_rates(
                           to_update,
                           IF Cardinality(clients) = 1
                           THEN CHOOSE c \in clients : TRUE ELSE "multiple",
                           time),
          history |-> save_to_history(
                          hist, to_update,
                          IF Cardinality(clients) = 1
                          THEN CHOOSE c \in clients : TRUE ELSE "multiple",
                          utcnow(time, 0))]

\* RatesUpdater.run_update
run_update(snap, hist, source_filter, force_update, responses, time) ==
    run_update_save(
        snap, hist, select_clients(source_filter), responses,
        fetch_all_rates(Len(Sources), select_clients(source_filter), responses),
        rates_to_update(snap,
                        fetch_all_rates(Len(Sources),
                                        select_clients(source_filter), responses),
                        force_update, time),
        force_update, time)

\* the parser service refreshes the rates, called with one of the filters
\* given; each client used answers
RunUpdateWith(filters) ==
    /\ \E source_filter \in filters, force_update \in BOOLEAN :
          \E responses \in
                 IF source_filter \in {"coingecko", "exchangerate"}
                 THEN [{source_filter} -> Responses(source_filter)]
                 ELSE {[coingecko |-> c, exchangerate |-> e] :
                          c \in Responses("coingecko"),
                          e \in Responses("exchangerate")} :
              \E r \in {run_update(snapshot, history, source_filter,
                                   force_update, responses, now)} :
                  /\ snapshot' = r.snapshot
                  /\ history' = r.history
                  /\ upd' = [op |-> "run_update",
                             source_filter |-> source_filter,
                             force_update |-> force_update,
                             responses |-> responses,
                             success |-> r.success,
                             total_rates |-> r.total_rates,
                             updated_pairs |-> r.updated_pairs,
                             failed_sources |-> r.failed_sources,
                             errors |-> r.errors,
                             saved |-> r.saved,
                             at |-> now, us |-> 0, untrimmed |-> <<>>,
                             runs |-> upd.runs + 1]
    /\ UNCHANGED <<now, portfolios, pf_cache, transactions, svc, memo, faults,
                   pf_start, th, walletVars, lock, lk, tx_ok, tx, gr, parserVars>>

\* run_update(source_filter, force_update) as update-rates calls it: without
\* a filter (--source all), or with the name of a client
RunUpdate ==
    /\ upd.runs < MaxUpdates
    /\ RunUpdateWith({"None", "coingecko", "exchangerate"})

UpdaterInit == TradeStill /\ WalletStill /\ OtherStill

UpdaterNext == RunUpdate \/ RateTick

SpecUpdater == UpdaterInit /\ [][UpdaterNext]_vars

(***************************************************************************)
(* RatesUpdater.run_update called with any source filter, on a data        *)
(* directory that a former refresh may have written.                       *)
(***************************************************************************)

\* the source_filter values: none, the names of the clients, and a name
\* that no client has
SourceFilters == {"None", "coingecko", "exchangerate", "binance"}
\* run_update calls made
MaxSourceRuns == 1

\* a refresh in which both clients returned all their pairs
FormerRefresh ==
    run_update(NoSnapshot, <<>>, "None", TRUE,
               [s \in {"coingecko", "exchangerate"} |->
                   [ok |-> TRUE, rates |-> [p \in SourcePairs[s] |-> 2]]],
               0)

RunUpdateSource ==
    /\ upd.runs < MaxSourceRuns
    /\ RunUpdateWith(SourceFilters)

SourceInit ==
    /\ TradeStill /\ WalletStill
    /\ lock = "free"
    /\ lk = [t \in Threads |-> LkIdle]
    /\ tx_ok = TRUE
    /\ tx = [t \in Threads |-> TxIdle]
    /\ gr = NoGet
    /\ \E former \in {[snapshot |-> NoSnapshot, history |-> <<>>],
                       [snapshot |-> FormerRefresh.snapshot,
                        history |-> FormerRefresh.history]} :
          /\ snapshot = former.snapshot
          /\ history = former.history
    /\ upd = NoUpdate
    /\ files = NoFiles
    /\ aw = NoWrite
    /\ ld = NoLoad
    /\ sched = NoScheduler
    /\ rq = NoRequest
    /\ rf = NoRefresh
    /\ db = NoDb

SourceNext == RunUpdateSource \/ RateTick

SpecSource == SourceInit /\ [][SourceNext]_vars

(***************************************************************************)
(* parser_service/storage.py: RatesStorage.save_to_history called over     *)
(* time, the clock read to the microsecond.                                *)
(***************************************************************************)

\* save_to_history calls made
MaxSaves == 6
\* the microseconds at which the clock is read: the start of a second and
\* the middle of it
Micros == {0, 500000}

\* save_to_history(rates, source, metadata): records are appended to the
\* history file and the file is trimmed.  The clock does not go back
SaveToHistory ==
    /\ upd.runs < MaxSaves
    /\ \E us \in Micros, pair \in {PairOrder[1], PairOrder[3]} :
          /\ upd.at = now => us >= upd.us
          /\ history' = save_to_history(history, [p \in {pair} |-> 2],
                                        "multiple", utcnow(now, us))
          /\ upd' = [NoUpdate EXCEPT
                        !.op = "save_to_history", !.saved = TRUE,
                        !.at = now, !.us = us,
                        !.untrimmed = history_append(history, 1,
                                                     [p \in {pair} |-> 2],
                                                     "multiple", utcnow(now, us)),
                        !.runs = upd.runs + 1]
    /\ UNCHANGED <<now, portfolios, pf_cache, transactions, svc, memo, faults,
                   pf_start, th, walletVars, lock, lk, tx_ok, tx, gr, snapshot,
                   parserVars>>

HistoryInit == TradeStill /\ WalletStill /\ OtherStill

HistoryNext == SaveToHistory \/ RateTick

SpecHistory == HistoryInit /\ [][HistoryNext]_vars


(***************************************************************************)
(* RatesStorage and its files.  _atomic_write dumps the data into a        *)
(* temporary file of the target's directory, chunk by chunk, and renames   *)
(* the temporary file to the target; a reader opens the target at any      *)
(* moment in between.                                                      *)
(***************************************************************************)
DocRates == {1, 2}
\* what save_current_rates and save_to_history hand to _atomic_write
RatesDocs ==
    {[pairs |-> [p \in {"BTC_USD"} |-> r],
      metadata |-> [k \in {"total_pairs"} |-> 1]] : r \in DocRates}
HistoryDocs == {<<[id |-> "BTC_USD", rate |-> r]>> : r \in DocRates}
Docs(file_path) == IF file_path = rates_file THEN RatesDocs ELSE HistoryDocs

\* json.dump(data, f) as the text it ends with, and json.load(f) of a text:
\* a text that stops before its last chunk does not parse
json_dump(data) == [doc |-> data, len |-> Chunks]
json_load(text) ==
    IF text.len = Chunks THEN [exc |-> "None", data |-> text.doc]
    ELSE [exc |-> "JSONDecodeError", data |-> text.doc]

\* tempfile.NamedTemporaryFile(dir=file_path.parent, delete=False,
\* suffix='.tmp'): the n-th new file of the target's directory
write_in_place(file_path, n) == file_path
NamedTemporaryFile(file_path, n) == [name |-> ".tmp", n |-> n]

\* Path.replace: the target gets the source's content in one step and the
\* source's name is gone
Path_replace(fs, tmp_path, file_path) ==
    [p \in Paths |-> IF p = file_path THEN fs[tmp_path]
                     ELSE IF p = tmp_path THEN NoFile ELSE fs[p]]

\* RatesStorage.load_current_rates
load_current_rates_defaulting(fs) ==
    IF ~fs[rates_file].exists \/ json_load(fs[rates_file].text).exc # "None"
    THEN [exc |-> "None", data |-> EmptyRates]
    ELSE json_load(fs[rates_file].text)
load_current_rates(fs) ==
    IF ~fs[rates_file].exists THEN [exc |-> "None", data |-> EmptyRates]
    ELSE IF json_load(fs[rates_file].text).exc # "None"
         THEN [exc |-> "DatabaseError", data |-> EmptyRates]
         ELSE json_load(fs[rates_file].text)

\* RatesStorage._load_history: a missing or damaged file reads as no records
load_history_file(fs) ==
    IF ~fs[history_file].exists THEN [exc |-> "None", data |-> <<>>]
    ELSE IF json_load(fs[history_file].text).exc # "None"
         THEN [exc |-> "None", data |-> <<>>]
         ELSE json_load(fs[history_file].text)

\* _atomic_write opens the temporary file
WriteOpen ==
    /\ aw.pc = "idle"
    /\ aw.writes < MaxWrites
    /\ \E file_path \in Targets :
          \E data \in Docs(file_path) :
             \E tmp_path \in {NamedTemporaryFile(file_path, aw.writes + 1)} :
                /\ files' = [files EXCEPT ![tmp_path] =
                                [exists |-> TRUE,
                                 text |-> [doc |-> data, len |-> 0]]]
                /\ aw' = [pc |-> "dump", file_path |-> file_path,
                          tmp_path |-> tmp_path, data |-> data,
                          old |-> files[file_path], exc |-> "None",
                          writes |-> aw.writes + 1]
    /\ UNCHANGED <<tradeVars, walletVars, lock, lk, tx_ok, tx, gr, snapshot,
                   history, upd, ld, sched, rq, rf, db>>

\* json.dump writes the next chunk, and the with block closes the file after
\* the last one
WriteChunk ==
    /\ aw.pc = "dump"
    /\ files' = [files EXCEPT ![aw.tmp_path].text.len = @ + 1]
    /\ aw' = [aw EXCEPT !.pc = IF files[aw.tmp_path].text.len + 1 = Chunks
                               THEN "replace" ELSE "dump"]
    /\ UNCHANGED <<tradeVars, walletVars, lock, lk, tx_ok, tx, gr, snapshot,
                   history, upd, ld, sched, rq, rf, db>>

\* tmp_path.replace(file_path); when it raises, the temporary file is removed
\* and the call raises DatabaseError
WriteReplace ==
    /\ aw.pc = "replace"
    /\ \E ok \in BOOLEAN :
          IF ok
          THEN /\ files' = Path_replace(files, aw.tmp_path, aw.file_path)
               /\ aw' = [aw EXCEPT !.pc = "idle"]
          ELSE /\ files' = [files EXCEPT ![aw.tmp_path] = NoFile]
               /\ aw' = [aw EXCEPT !.pc = "idle", !.exc = "DatabaseError"]
    /\ UNCHANGED <<tradeVars, walletVars, lock, lk, tx_ok, tx, gr, snapshot,
                   history, upd, ld, sched, rq, rf, db>>

\* a reader's load_current_rates, at any moment
LoadCurrentRates ==
    /\ \E r \in {load_current_rates(files)} :
          ld' = [op |-> "load_current_rates", path |-> rates_file,
                 data |-> r.data, exc |-> r.exc, found |-> files[rates_file],
                 during |-> aw.pc # "idle" /\ aw.file_path = rates_file,
                 old |-> aw.old, new |-> aw.data]
    /\ UNCHANGED <<tradeVars, walletVars, lock, lk, tx_ok, tx, gr, snapshot,
                   history, upd, files, aw, sched, rq, rf, db>>

\* a reader's _load_history, at any moment
LoadHistory ==
    /\ \E r \in {load_history_file(files)} :
          ld' = [op |-> "_load_history", path |-> history_file,
                 data |-> r.data, exc |-> r.exc, found |-> files[history_file],
                 during |-> aw.pc # "idle" /\ aw.file_path = history_file,
                 old |-> aw.old, new |-> aw.data]
    /\ UNCHANGED <<tradeVars, walletVars, lock, lk, tx_ok, tx, gr, snapshot,
                   history, upd, files, aw, sched, rq, rf, db>>

\* the rates file is missing, whole, or cut short by something other than
\* RatesStorage; the history file is missing or whole
StorageInit ==
    /\ TradeStill /\ WalletStill
    /\ lock = "free"
    /\ lk = [t \in Threads |-> LkIdle]
    /\ tx_ok = TRUE
    /\ tx = [t \in Threads |-> TxIdle]
    /\ gr = NoGet
    /\ snapshot = NoSnapshot
    /\ history = <<>>
    /\ upd = NoUpdate
    /\ \E rates \in {NoFile} \cup {[exists |-> TRUE, text |-> [doc |-> d, len |-> n]] : d \in RatesDocs, n \in 0..Chunks} :
          \E hist \in {NoFile} \cup {[exists |-> TRUE, text |-> json_dump(d)] : d \in HistoryDocs} :
             files = [p \in Paths |-> IF p = rates_file THEN rates
                                      ELSE IF p = history_file THEN hist
                                      ELSE NoFile]
    /\ aw = NoWrite
    /\ ld = NoLoad
    /\ sched = NoScheduler
    /\ rq = NoRequest
    /\ rf = NoRefresh
    /\ db = NoDb

StorageNext ==
    WriteOpen \/ WriteChunk \/ WriteReplace \/ LoadCurrentRates \/ LoadHistory

SpecStorage == StorageInit /\ [][StorageNext]_vars


(***************************************************************************)
(* ParserScheduler.  The periodic job lives in the schedule module's job   *)
(* list; start() adds it and starts a thread that runs the due jobs,       *)
(* stop() sets the stop event, clears the list and joins the thread for at *)
(* most five seconds.                                                      *)
(***************************************************************************)
\* what the updater's run_update does in a cycle: it returns a result with
\* success true ("success") or false ("failure"), or it raises ("raise")
Outcomes == {"success", "failure", "raise"}
Callbacks == {"on_update_start", "on_update_complete", "on_error"}

\* settings 'rates.update_on_start', and what ParserConfig answers for the
\* attribute update_on_start: the dataclass has no such field
update_on_start == TRUE
ParserConfig_update_on_start == "AttributeError"

\* the try block of _scheduled_update and of run_update: the calls it makes,
\* and whether it raised
try_calls(outcome, raises) ==
    IF "on_update_start" \in raises THEN <<"on_update_start">>
    ELSE IF outcome = "raise" THEN <<"on_update_start", "run_update">>
    ELSE IF outcome = "success"
         THEN <<"on_update_start", "run_update", "on_update_complete">>
         ELSE <<"on_update_start", "run_update", "on_error">>
try_raised(outcome, raises) ==
    \/ "on_update_start" \in raises
    \/ outcome = "raise"
    \/ outcome = "success" /\ "on_update_complete" \in raises
    \/ outcome = "failure" /\ "on_error" \in raises

\* ParserScheduler._scheduled_update and ParserScheduler.run_update with the
\* three callbacks set: the except branch calls on_error, and what on_error
\* raises there leaves the method
refresh_cycle(outcome, raises) ==
    [calls |-> IF try_raised(outcome, raises)
               THEN Append(try_calls(outcome, raises), "on_error")
               ELSE try_calls(outcome, raises),
     exc |-> IF try_raised(outcome, raises) /\ "on_error" \in raises
             THEN "Exception" ELSE "None",
     ret |-> outcome = "success" /\ ~try_raised(outcome, raises)]

\* _run_scheduler after a job: the loop's except branch logs what the job
\* raised and the thread goes on
run_scheduler_uncaught(exc) == IF exc # "None" THEN "none" ELSE "loop"
run_scheduler_after(exc) == "loop"

\* the number of times a call is in a cycle's calls
Count(calls, name) == Cardinality({i \in 1..Len(calls) : calls[i] = name})

SchedStill ==
    UNCHANGED <<tradeVars, walletVars, lock, lk, tx_ok, tx, gr, snapshot,
                history, upd, files, aw, ld, rq, rf, db>>

\* what every call notes of the scheduler as it found it
sched_before ==
    [is_running |-> sched.is_running, jobs |-> sched.jobs,
     starts |-> sched.starts, immediate |-> sched.immediate]

\* ParserScheduler.start
Start ==
    /\ \/ sched.is_running
       \/ sched.starts < MaxStarts
    /\ IF sched.is_running
       THEN sched' = [sched EXCEPT !.op = "start", !.exc = "None",
                                   !.before = sched_before]
       ELSE sched' = [sched EXCEPT
                        !.op = "start",
                        !.before = sched_before,
                        !.jobs = @ + 1,
                        !.stop_event = FALSE,
                        !.thread[sched.starts + 1] = "loop",
                        !.starts = @ + 1,
                        !.is_running = TRUE,
                        !.stopped = FALSE,
                        !.exc = IF ParserConfig_update_on_start = "AttributeError"
                                THEN "AttributeError" ELSE "None",
                        !.immediate = IF ParserConfig_update_on_start = "True"
                                      THEN @ + 1 ELSE @]
    /\ SchedStill

\* ParserScheduler.stop up to the join: nothing for a scheduler that is not
\* running; else the event is set and the jobs are cleared
StopBegin ==
    /\ sched.stop_pc = "out"
    /\ IF ~sched.is_running
       THEN sched' = [sched EXCEPT !.op = "stop", !.exc = "None",
                                   !.before = sched_before]
       ELSE sched' = [sched EXCEPT !.op = "stop_join", !.exc = "None",
                                   !.before = sched_before,
                                   !.stop_event = TRUE, !.jobs = 0,
                                   !.stop_pc = "join"]
    /\ SchedStill

\* join(timeout=5.0) of the last thread started ends: the thread has ended,
\* or five seconds have passed with the thread in a job; stop() returns
StopReturn ==
    /\ sched.stop_pc = "join"
    /\ sched.thread[sched.starts] \in {"none", "cycle"}
    /\ sched' = [sched EXCEPT !.op = "stop", !.is_running = FALSE,
                              !.stop_pc = "out", !.stopped = TRUE]
    /\ SchedStill

\* _run_scheduler: the loop finds the stop event set and the thread ends
ThreadExit(i) ==
    /\ sched.thread[i] = "loop"
    /\ sched.stop_event
    /\ sched' = [sched EXCEPT !.op = "thread_exit", !.thread[i] = "none"]
    /\ SchedStill

\* _run_scheduler: the event is not set and run_pending finds the job due
CycleBegin(i) ==
    /\ sched.thread[i] = "loop"
    /\ ~sched.stop_event
    /\ sched.jobs > 0
    /\ sched.cycles < MaxCycles
    /\ sched' = [sched EXCEPT !.op = "cycle_begin", !.thread[i] = "cycle",
                              !.cycles = @ + 1]
    /\ SchedStill

\* _scheduled_update runs to its end, and the loop of _run_scheduler goes on
CycleEnd(i) ==
    /\ sched.thread[i] = "cycle"
    /\ \E outcome \in Outcomes, raises \in SUBSET Callbacks :
          \E r \in {refresh_cycle(outcome, raises)} :
             sched' = [sched EXCEPT
                         !.op = "cycle", !.exc = "None",
                         !.before = sched_before,
                         !.thread[i] = run_scheduler_after(r.exc),
                         !.cycle = [kind |-> "scheduled", thread |-> i,
                                    outcome |-> outcome, raises |-> raises,
                                    calls |-> r.calls, exc |-> r.exc,
                                    ret |-> r.ret]]
    /\ SchedStill

\* ParserScheduler.run_update called by the program: an immediate cycle
RunUpdateNow ==
    /\ sched.cycles < MaxCycles
    /\ \E outcome \in Outcomes, raises \in SUBSET Callbacks :
          \E r \in {refresh_cycle(outcome, raises)} :
             sched' = [sched EXCEPT
                         !.op = "cycle", !.exc = r.exc,
                         !.before = sched_before,
                         !.cycles = @ + 1,
                         !.cycle = [kind |-> "immediate", thread |-> 0,
                                    outcome |-> outcome, raises |-> raises,
                                    calls |-> r.calls, exc |-> r.exc,
                                    ret |-> r.ret]]
    /\ SchedStill

SchedulerInit == TradeStill /\ WalletStill /\ OtherStill

SchedulerNext ==
    \/ Start
    \/ StopBegin
    \/ StopReturn
    \/ RunUpdateNow
    \/ \E i \in 1..MaxStarts : ThreadExit(i)
    \/ \E i \in 1..MaxStarts : CycleBegin(i)
    \/ \E i \in 1..MaxStarts : CycleEnd(i)

SpecScheduler == SchedulerInit /\ [][SchedulerNext]_vars


(***************************************************************************)
(* BaseApiClient._make_request: the attempts of one provider request.      *)
(***************************************************************************)
MAX_RETRIES == 3
RETRY_DELAY == 2
\* int(response.headers.get('Retry-After', 60)) of an answer without the
\* header
Retry_After == 60
\* what an attempt meets: a status code of the response, a response whose
\* body is not JSON, or an exception of session.get
Answers == {"200", "429", "500", "JSONDecodeError", "Timeout", "ConnectionError"}

\* the loop `for attempt in range(max_retries)` from attempt on, with the
\* sleeps made so far
RECURSIVE make_request_from(_, _, _, _)
make_request_from(answers, retries, attempt, sleeps) ==
    IF attempt >= retries
    THEN [exc |-> "ApiRequestError", attempts |-> attempt, sleeps |-> sleeps]
    ELSE IF answers[attempt + 1] = "200"
    THEN [exc |-> "None", attempts |-> attempt + 1, sleeps |-> sleeps]
    ELSE IF answers[attempt + 1] = "429"
    THEN IF attempt < retries - 1
         THEN make_request_from(answers, retries, attempt + 1,
                                Append(sleeps, Retry_After))
         ELSE [exc |-> "ApiRequestError", attempts |-> attempt + 1,
               sleeps |-> sleeps]
    ELSE IF answers[attempt + 1] \in {"Timeout", "ConnectionError"}
    THEN IF attempt < retries - 1
         THEN make_request_from(answers, retries, attempt + 1,
                                Append(sleeps, RETRY_DELAY * (attempt + 1)))
         ELSE [exc |-> "ApiRequestError", attempts |-> attempt + 1,
               sleeps |-> sleeps]
    ELSE [exc |-> "ApiRequestError", attempts |-> attempt + 1,
          sleeps |-> sleeps]

\* _make_request(url): max_retries is config.MAX_RETRIES
make_request(answers) == make_request_from(answers, MAX_RETRIES, 0, <<>>)

\* a client's fetch_rates makes its one request, and run_update puts the
\* client on failed_sources when fetch_rates raises
MakeRequest ==
    /\ \E i \in DOMAIN Sources, answers \in [1..MAX_RETRIES -> Answers] :
          \E r \in {make_request(answers)} :
             rq' = [op |-> "_make_request", source |-> Sources[i],
                    answers |-> answers, attempts |-> r.attempts,
                    sleeps |-> r.sleeps, exc |-> r.exc,
                    failed |-> r.exc # "None"]
    /\ UNCHANGED <<tradeVars, walletVars, lock, lk, tx_ok, tx, gr, snapshot,
                   history, upd, files, aw, ld, sched, rf, db>>

RequestInit == TradeStill /\ WalletStill /\ OtherStill

RequestNext == MakeRequest

SpecRequest == RequestInit /\ [][RequestNext]_vars

(***************************************************************************)
(* Two threads in RatesUpdater.run_update at the same time.  RatesStorage  *)
(* has no lock: a thread's steps on the two files (the write of the rates  *)
(* file, the load of the history, the write of the history, the load and   *)
(* the write of _trim_history) are taken one at a time and the steps of    *)
(* the other thread come in between.  Each write is an _atomic_write: the  *)
(* file changes in one step, or the write raises and the file stays.       *)
(***************************************************************************)

\* a record a former refresh left in the history file
OldRecord ==
    [from_currency |-> "EUR", to_currency |-> "USD", rate |-> 2,
     timestamp |-> utcnow(0, 0), source |-> "multiple"]

\* _load_history on the history file: [] when the file does not parse
load_history(ok, hist) == IF ok THEN hist ELSE <<>>

\* run_update: source, the name under which the rates are saved
save_source(clients) ==
    IF Cardinality(clients) = 1 THEN CHOOSE c \in clients : TRUE ELSE "multiple"

\* run_update after a storage call raised: `except Exception` returns the
\* result as it is then, success=False
storage_raised(rec) ==
    [rec EXCEPT !.pc = "returned", !.exc = "DatabaseError", !.success = FALSE]

\* run_update up to the storage calls: the clients are asked and the rates
\* to write are chosen
RefreshFetch(r) ==
    /\ rf.th[r].pc = "idle"
    /\ \E source_filter \in {"coingecko", "exchangerate"} :
          \E responses \in [{source_filter} -> Responses(source_filter)] :
             \E all_rates \in {fetch_all_rates(Len(Sources),
                                               select_clients(source_filter),
                                               responses)} :
                \E to_update \in {rates_to_update(snapshot, all_rates, FALSE, now)} :
                   rf' = [rf EXCEPT !.th[r] =
                            IF DOMAIN all_rates = {}
                            THEN [@ EXCEPT !.pc = "returned"]
                            ELSE IF DOMAIN to_update = {}
                            THEN [@ EXCEPT !.pc = "returned", !.success = TRUE]
                            ELSE [@ EXCEPT
                                    !.pc = "save_current_rates",
                                    !.rates = to_update,
                                    !.source =
                                        save_source(select_clients(source_filter))]]
    /\ UNCHANGED <<tradeVars, walletVars, lock, lk, tx_ok, tx, gr, snapshot,
                   history, upd, files, aw, ld, sched, rq, db>>

\* storage.save_current_rates(rates_to_update, source, metadata)
RefreshSaveRates(r) ==
    /\ rf.th[r].pc = "save_current_rates"
    /\ \E ok \in BOOLEAN :
          IF ok
          THEN /\ snapshot' = save_current_rates(rf.th[r].rates,
                                                 rf.th[r].source, now)
               /\ rf' = [rf EXCEPT !.th[r].pc = "load_history",
                                   !.th[r].wrote_rates = TRUE]
          ELSE /\ snapshot' = snapshot
               /\ rf' = [rf EXCEPT !.th[r] = storage_raised(@)]
    /\ UNCHANGED <<tradeVars, walletVars, lock, lk, tx_ok, tx, gr,
                   history, upd, files, aw, ld, sched, rq, db>>

\* save_to_history: history_data = self._load_history()
RefreshLoadHistory(r) ==
    /\ rf.th[r].pc = "load_history"
    /\ rf' = [rf EXCEPT !.th[r].pc = "write_history",
                        !.th[r].loaded = load_history(rf.ok, history),
                        !.th[r].found_ok = rf.ok,
                        !.th[r].found = history]
    /\ UNCHANGED <<tradeVars, walletVars, lock, lk, tx_ok, tx, gr, snapshot,
                   history, upd, files, aw, ld, sched, rq, db>>

\* save_to_history: the records are appended to the list loaded and
\* _atomic_write(self.history_file, history_data)
RefreshWriteHistory(r) ==
    /\ rf.th[r].pc = "write_history"
    /\ \E ok \in BOOLEAN :
          IF ok
          THEN /\ history' = history_append(rf.th[r].loaded, 1, rf.th[r].rates,
                                            rf.th[r].source, utcnow(now, 0))
               /\ rf' = [rf EXCEPT !.ok = TRUE,
                                   !.th[r].pc = "trim_history",
                                   !.th[r].wrote_history = TRUE]
          ELSE /\ history' = history
               /\ rf' = [rf EXCEPT !.th[r] = storage_raised(@)]
    /\ UNCHANGED <<tradeVars, walletVars, lock, lk, tx_ok, tx, gr, snapshot,
                   upd, files, aw, ld, sched, rq, db>>

\* _trim_history: history = self._load_history(); a history that is not too
\* long is left, and run_update sets success
RefreshTrimLoad(r) ==
    /\ rf.th[r].pc = "trim_history"
    /\ rf' = [rf EXCEPT !.th[r] =
                 IF Len(load_history(rf.ok, history)) > history_max_records
                 THEN [@ EXCEPT !.pc = "trim_write",
                                !.loaded = load_history(rf.ok, history)]
                 ELSE [@ EXCEPT !.pc = "returned", !.success = TRUE]]
    /\ UNCHANGED <<tradeVars, walletVars, lock, lk, tx_ok, tx, gr, snapshot,
                   history, upd, files, aw, ld, sched, rq, db>>

\* _trim_history: the list loaded is sorted, cut and written
RefreshTrimWrite(r) ==
    /\ rf.th[r].pc = "trim_write"
    /\ \E ok \in BOOLEAN :
          IF ok
          THEN /\ history' = trim_history(rf.th[r].loaded, history_max_records)
               /\ rf' = [rf EXCEPT !.ok = TRUE,
                                   !.th[r].pc = "returned",
                                   !.th[r].trimmed = TRUE,
                                   !.th[r].success = TRUE]
          ELSE /\ history' = history
               /\ rf' = [rf EXCEPT !.th[r] = storage_raised(@)]
    /\ UNCHANGED <<tradeVars, walletVars, lock, lk, tx_ok, tx, gr, snapshot,
                   upd, files, aw, ld, sched, rq, db>>

\* no rates file; the history file is missing, or holds the records of
\* former refreshes, whole or damaged
RefreshInit ==
    /\ TradeStill /\ WalletStill
    /\ lock = "free"
    /\ lk = [t \in Threads |-> LkIdle]
    /\ tx_ok = TRUE
    /\ tx = [t \in Threads |-> TxIdle]
    /\ gr = NoGet
    /\ snapshot = NoSnapshot
    /\ history \in {<<>>, <<OldRecord>>, <<OldRecord, OldRecord>>}
    /\ upd = NoUpdate
    /\ files = NoFiles
    /\ aw = NoWrite
    /\ ld = NoLoad
    /\ sched = NoScheduler
    /\ rq = NoRequest
    /\ rf \in {[NoRefresh EXCEPT !.ok = ok, !.start = load_history(ok, history)] :
                  ok \in IF history = <<>> THEN {TRUE} ELSE BOOLEAN}
    /\ db = NoDb

RefreshNext ==
    \/ \E r \in Refreshers : RefreshFetch(r)
    \/ \E r \in Refreshers : RefreshSaveRates(r)
    \/ \E r \in Refreshers : RefreshLoadHistory(r)
    \/ \E r \in Refreshers : RefreshWriteHistory(r)
    \/ \E r \in Refreshers : RefreshTrimLoad(r)
    \/ \E r \in Refreshers : RefreshTrimWrite(r)

SpecRefresh == RefreshInit /\ [][RefreshNext]_vars

(***************************************************************************)
(* infra/database.py: DatabaseManager with several threads on one file.    *)
(* _get_cached_data, _read_file, _set_cached_data and _write_file each run *)
(* inside `with self._lock`, so each is one step that waits for the lock;  *)
(* read_data takes them one after the other and lets go of the lock in     *)
(* between; update_data holds the lock (an RLock) from its read to the end *)
(* of its write.  The file holds a list; insert appends an item.  No time  *)
(* passes: what is cached stays within _cache_ttl.                         *)
(***************************************************************************)

\* insert calls made
MaxInserts == 2

\* `with self._lock` of update_data: the caller holds the lock
no_lock(owner, t) == owner
rlock_acquire(owner, t) == t

\* a thread may enter a section of the manager: the lock is free or its own
may_enter(t) == db.lock \in {"free", t}

\* a caller enters read_data(filename) (use_cache=True) or insert(filename, item)
DbCall(t) ==
    /\ db.th[t].pc = "idle"
    /\ \E op \in {"read_data", "insert"} :
          /\ op = "insert" => db.calls < MaxInserts
          /\ db' = [db EXCEPT
                      !.calls = IF op = "insert" THEN @ + 1 ELSE @,
                      !.th[t] = [DbIdle EXCEPT
                                   !.pc = IF op = "insert" THEN "acquire"
                                          ELSE "get_cached",
                                   !.op = op,
                                   !.began = Len(db.file),
                                   !.item = IF op = "insert" THEN db.calls + 1
                                            ELSE 0]]
    /\ UNCHANGED <<tradeVars, walletVars, lock, lk, tx_ok, tx, gr, snapshot,
                   history, upd, files, aw, ld, sched, rq, rf>>

\* read_data: cached_data = self._get_cached_data(filepath), returned when
\* it is not None
DbGetCached(t) ==
    /\ db.th[t].pc = "get_cached"
    /\ may_enter(t)
    /\ db' = [db EXCEPT !.th[t] =
                 IF db.cache.has
                 THEN [@ EXCEPT !.pc = "returned", !.ret = db.cache.data]
                 ELSE [@ EXCEPT !.pc = "read_file"]]
    /\ UNCHANGED <<tradeVars, walletVars, lock, lk, tx_ok, tx, gr, snapshot,
                   history, upd, files, aw, ld, sched, rq, rf>>

\* data = self._read_file(filepath), by read_data and, with use_cache=False,
\* by update_data
DbReadFile(t) ==
    /\ db.th[t].pc = "read_file"
    /\ may_enter(t)
    /\ db' = [db EXCEPT !.th[t].data = db.file,
                        !.th[t].pc = IF db.th[t].op = "insert" THEN "write_file"
                                     ELSE "set_cached"]
    /\ UNCHANGED <<tradeVars, walletVars, lock, lk, tx_ok, tx, gr, snapshot,
                   history, upd, files, aw, ld, sched, rq, rf>>

\* read_data: self._set_cached_data(filepath, data); return data
DbSetCached(t) ==
    /\ db.th[t].pc = "set_cached"
    /\ may_enter(t)
    /\ db' = [db EXCEPT !.cache = [has |-> TRUE, data |-> db.th[t].data],
                        !.th[t].pc = "returned",
                        !.th[t].ret = db.th[t].data]
    /\ UNCHANGED <<tradeVars, walletVars, lock, lk, tx_ok, tx, gr, snapshot,
                   history, upd, files, aw, ld, sched, rq, rf>>

\* update_data: with self._lock
DbAcquire(t) ==
    /\ db.th[t].pc = "acquire"
    /\ may_enter(t)
    /\ db' = [db EXCEPT !.lock = rlock_acquire(db.lock, t),
                        !.th[t].pc = "read_file"]
    /\ UNCHANGED <<tradeVars, walletVars, lock, lk, tx_ok, tx, gr, snapshot,
                   history, upd, files, aw, ld, sched, rq, rf>>

\* update_data: updater_func(data) appends the item to the list read, and
\* write_data writes that list; _write_file drops the file's cache entry
DbWriteFile(t) ==
    /\ db.th[t].pc = "write_file"
    /\ may_enter(t)
    /\ db' = [db EXCEPT !.file = Append(db.th[t].data, db.th[t].item),
                        !.cache = [has |-> FALSE, data |-> <<>>],
                        !.written = Append(@, db.th[t].item),
                        !.th[t].pc = "release"]
    /\ UNCHANGED <<tradeVars, walletVars, lock, lk, tx_ok, tx, gr, snapshot,
                   history, upd, files, aw, ld, sched, rq, rf>>

\* update_data: the with block ends and insert returns the item
DbRelease(t) ==
    /\ db.th[t].pc = "release"
    /\ db' = [db EXCEPT !.lock = IF @ = t THEN "free" ELSE @,
                        !.th[t].pc = "returned",
                        !.th[t].ret = <<db.th[t].item>>]
    /\ UNCHANGED <<tradeVars, walletVars, lock, lk, tx_ok, tx, gr, snapshot,
                   history, upd, files, aw, ld, sched, rq, rf>>

\* the caller has its answer and may call again
DbReturn(t) ==
    /\ db.th[t].pc = "returned"
    /\ db' = [db EXCEPT !.th[t] = DbIdle]
    /\ UNCHANGED <<tradeVars, walletVars, lock, lk, tx_ok, tx, gr, snapshot,
                   history, upd, files, aw, ld, sched, rq, rf>>

DbInit == TradeStill /\ WalletStill /\ OtherStill

DbNext ==
    \/ \E t \in Threads : DbCall(t)
    \/ \E t \in Threads : DbGetCached(t)
    \/ \E t \in Threads : DbReadFile(t)
    \/ \E t \in Threads : DbSetCached(t)
    \/ \E t \in Threads : DbAcquire(t)
    \/ \E t \in Threads : DbWriteFile(t)
    \/ \E t \in Threads : DbRelease(t)
    \/ \E t \in Threads : DbReturn(t)

SpecDb == DbInit /\ [][DbNext]_vars


wallets_of(data, user_id) ==
    IF find_one(data, user_id) = 0 THEN NoWallets
    ELSE data[find_one(data, user_id)].wallets

\* no other thread has entered a call
Alone(t) == \A o \in Threads \ {t} : th[o].pc = "idle"

\* buy_currency run from start to end on the portfolios list with nothing in
\* between, at the total the call was quoted: the list it leaves
buy_alone(data, rec) ==
    IF validate(rec.op, rec.currency, rec.other, rec.amount) # "None" THEN data
    ELSE LET i == find_one(data, rec.user_id)
             fresh == add_currency(NoWallets, default_base_currency)
             data1 == IF i = 0 THEN Append(data, to_dict(rec.user_id, fresh))
                      ELSE data
             wallets == wallets_of(data1, rec.user_id)
             j == find_one(data1, rec.user_id)
         IN  IF funds_check(rec.op, wallets, rec.currency, rec.other,
                            rec.amount, rec.total) # "None"
             THEN data1
             ELSE IF wallets[rec.currency] # NoWallet THEN data1
             ELSE [data1 EXCEPT ![j] =
                      to_dict(rec.user_id, add_currency(wallets, rec.currency))]

\* C2: when two concurrent buy_currency calls for the same user, who has a
\* portfolio, have both returned (no write having failed), the portfolios
\* file holds what running the two buys one after the other, in one of the
\* two orders, leaves.
C2_ConcurrentBuysSerialise ==
    (/\ \A t \in Threads :
            th[t].pc = "returned" /\ th[t].op = "buy" /\ th[t].existed
     /\ th["t1"].user_id = th["t2"].user_id
     /\ faults = 0)
    => /\ portfolios.ok
       /\ portfolios.data \in
             { buy_alone(buy_alone(pf_start, th["t1"]), th["t2"]),
               buy_alone(buy_alone(pf_start, th["t2"]), th["t1"]) }

C4_BuyScenario ==
    \A t \in Threads :
        (/\ th[t].op = "buy" /\ th[t].currency = "BTC"
         /\ th[t].other = "USD" /\ th[t].amount = Dec(1, -2)
         /\ th[t].quoted /\ Alone(t) /\ faults = 0
         /\ svc.rates = snapshot_rates
         /\ wallets_of(pf_start, th[t].user_id) =
                [NoWallets EXCEPT !["USD"] = Dec(1, 3)])
        => /\ th[t].cost = Dec(600, 0)
           /\ th[t].fee = Dec(6, -1)
           /\ th[t].total = Dec(6006, -1)
           /\ th[t].pc = "returned"
                 => /\ wallets_of(portfolios.data, th[t].user_id) =
                          [NoWallets EXCEPT !["USD"] = Dec(3994, -1),
                                            !["BTC"] = Dec(1, -2)]
                    /\ Len(transactions) = 1

\* C5: a buy_currency or sell_currency call that found the funds short (the
\* user having a portfolio) has failed with InsufficientFundsError, has left
\* the portfolios file as it was and has appended no transaction.
C5_InsufficientFunds ==
    \A t \in Threads :
        (th[t].pc = "returned" /\ th[t].exc = "InsufficientFundsError"
            /\ th[t].existed)
        => /\ th[t].result = "InsufficientFundsError"
           /\ ~th[t].wrote
           /\ transactions = <<>>

\* C7: a call for a user whose portfolio exists that has failed, no write
\* having failed, has left the portfolios file and the transactions file as
\* they were, the set of wallets included.
C7_FailedCallLeavesStores ==
    \A t \in Threads :
        (th[t].pc = "returned" /\ th[t].result # "None" /\ th[t].existed
            /\ ~th[t].write_failed)
        => /\ ~th[t].wrote
           /\ transactions = <<>>

\* C8: a call during which a write of the portfolios file failed has not
\* reported success, no transaction of it remains, and the portfolios file
\* holds the balances it held before the call.
C8_WriteFailureAborts ==
    \A t \in Threads :
        (th[t].pc = "returned" /\ th[t].write_failed /\ th[t].existed
            /\ Alone(t))
        => /\ th[t].result # "None"
           /\ transactions = <<>>
           /\ portfolios = [ok |-> TRUE, data |-> pf_start]

\* C9: a buy of a currency for which the user has no wallet, the base funds
\* covering the total, has succeeded and the persisted portfolio holds that
\* wallet with the bought amount as its balance.
C9_BuyCreatesWallet ==
    \A t \in Threads :
        LET rec == th[t]
            was == wallets_of(pf_start, rec.user_id)
        IN  (/\ rec.pc = "returned" /\ rec.op = "buy" /\ rec.quoted
             /\ Alone(t) /\ faults = 0
             /\ was[rec.other] # NoWallet
             /\ ~DecLess(was[rec.other], rec.total)
             /\ was[rec.currency] = NoWallet)
            => /\ rec.result = "None"
               /\ wallets_of(portfolios.data, rec.user_id)[rec.currency]
                     = ToFloat(rec.amount)

\* C10: a call with amount <= 0, with an amount below the minimum trade
\* amount or with an unregistered code has been rejected with a validation or
\* currency-not-found error, without a rate having been quoted and without a
\* change of the portfolios, the transactions or the rates.
C10_InvalidInputRejected ==
    \A t \in Threads :
        (/\ th[t].pc # "idle"
         /\ \/ DecLeq(th[t].amount, Zero)
            \/ DecLess(th[t].amount, min_trade_amount)
            \/ ~get_currency_ok(th[t].currency)
            \/ ~get_currency_ok(th[t].other))
        => /\ th[t].pc = "returned"
           /\ th[t].result \in {"InvalidAmountError", "CurrencyNotFoundError"}
           /\ ~th[t].quoted
           /\ ~th[t].rates_changed
           /\ ~th[t].wrote
           /\ transactions = <<>>

\* C11: a trade in progress for one user never makes a trade of another user
\* wait: no thread waits for a lock that a thread working for a different
\* user holds.
C11_NoCrossUserBlocking ==
    \A a \in Threads, b \in Threads :
        ~(/\ lock = a
          /\ lk[b].pc = "wait"
          /\ lk[a].user_id # lk[b].user_id)

\* C12: the transaction IDs in the transactions file are unique and
\* strictly increasing in the order in which the records were appended,
\* for any interleaving of create_transaction calls.
C12_TransactionIdsIncrease ==
    \A i \in 1..Len(transactions), j \in 1..Len(transactions) :
        i < j => transactions[i].transaction_id < transactions[j].transaction_id

\* C13: the ledger is append-only: in every step of a create_transaction
\* call, successful or failed, every record of the transactions file stays
\* in it, unchanged and at its place, and new records are added at the end
\* only.
C13_LedgerAppendOnly ==
    [][/\ Len(transactions') >= Len(transactions)
       /\ SubSeq(transactions', 1, Len(transactions)) = transactions]_vars

\* C14: get_rate(X, X) returns exactly 1 for every registered currency X,
\* whatever the stored rates and their age, without a fetch, a refresh or
\* any other change of the stored rates.
C14_IdentityRate ==
    (gr.op = "get_rate" /\ gr.from = gr.to /\ get_currency_ok(gr.from))
    => /\ gr.exc = "None"
       /\ gr.rate = One
       /\ ~gr.changed
       /\ gr.depth = 0

\* get_rate(RUB, RUB) has been answered at an instant at which the stored
\* rates were older than rates_ttl
C14_Witness_StaleIdentity ==
    /\ gr.op = "get_rate" /\ gr.from = "RUB" /\ gr.to = "RUB"
    /\ gr.rate = One
    /\ gr.at - svc.ts > rates_ttl
    /\ \E p \in Pairs : svc.rates[p] # NoRate

\* C15: get_rate for registered currencies nests get_rate at most one level
\* deep, and when it fails it fails with the rate-unavailable error
\* (ApiRequestError) after its max_retries attempts.
C15_GetRateTerminates ==
    (gr.op = "get_rate" /\ get_currency_ok(gr.from) /\ get_currency_ok(gr.to))
    => /\ gr.depth <= 1
       /\ gr.exc \in {"None", "ApiRequestError"}

\* C16: a rate that get_rate returns without a new fetch comes from a rate
\* record that is at most rates_ttl old at the time of the call.
C16_NoStaleRate ==
    (gr.op = "get_rate" /\ gr.exc = "None" /\ gr.from # gr.to)
    => gr.at - gr.as_of <= rates_ttl

\* C17: a rate record is reported fresh iff now - updated_at <= TTL (a
\* missing pair is stale), by RatesStorage.is_rate_fresh on the records of
\* the rates file and by ExchangeRateService._is_rate_fresh on the rates of
\* the service.
C17_FreshIffWithinTTL ==
    /\ \A p \in DOMAIN snapshot.pairs :
          RatesStorage_is_rate_fresh(snapshot, p, now)
              <=> now - snapshot.pairs[p].updated_at <= CACHE_TTL_SECONDS
    /\ \A p \in UNION {SourcePairs[s] : s \in DOMAIN SourcePairs} :
          p \notin DOMAIN snapshot.pairs
              => ~RatesStorage_is_rate_fresh(snapshot, p, now)
    /\ \A p \in Pairs :
          is_rate_fresh(svc.rates[p], now)
              <=> /\ svc.rates[p] # NoRate
                  /\ now - svc.rates[p].updated_at <= rates_ttl

\* C18: every rate in the rates file and in the history, and every rate
\* get_rate returns, is greater than 0.
C18_RatesPositive ==
    /\ \A p \in DOMAIN snapshot.pairs : snapshot.pairs[p].rate > 0
    /\ \A i \in 1..Len(history) : history[i].rate > 0
    /\ (gr.op = "get_rate" /\ gr.exc = "None") => DecLess(Zero, gr.rate)

C21_HistoryKeepsLatest ==
    upd.op = "save_to_history"
    => /\ Len(history) <= history_max_records
       /\ Len(upd.untrimmed) <= history_max_records => history = upd.untrimmed
       /\ Len(upd.untrimmed) > history_max_records
          =>    /\ Len(history) = history_max_records
                /\ \A i \in 1..Len(history) :
                      \E j \in 1..Len(upd.untrimmed) : history[i] = upd.untrimmed[j]
                /\ \A i \in 1..Len(history), j \in 1..Len(upd.untrimmed) :
                      (\A k \in 1..Len(history) : history[k] # upd.untrimmed[j])
                      => \/ upd.untrimmed[j].timestamp.s < history[i].timestamp.s
                         \/ /\ upd.untrimmed[j].timestamp.s = history[i].timestamp.s
                            /\ upd.untrimmed[j].timestamp.us <= history[i].timestamp.us

\* C22: a reader that opens the rates file or the history file while
\* _atomic_write is writing that file finds the whole old file or the whole
\* new text, never a part of one.
C22_AtomicWrite ==
    ld.op # "none" /\ ld.during
    => \/ /\ ld.found.exists = ld.old.exists
          /\ ld.found.exists => ld.found.text = ld.old.text
       \/ /\ ld.found.exists
          /\ ld.found.text = json_dump(ld.new)

\* a reader met a write of its file in progress and found the old file; a
\* reader found the new text after the write replaced the file
C22_Witness_ReadDuringWrite ==
    /\ ld.op # "none" /\ ld.during
    /\ ld.old.exists /\ ld.old.text.len = Chunks
    /\ ld.found = ld.old
    /\ ld.old.text # json_dump(ld.new)
    /\ aw.pc = "idle" /\ aw.exc = "None" /\ aw.file_path = ld.path
    /\ files[ld.path].text = json_dump(ld.new)

\* C23: load_current_rates returns empty pairs and empty metadata when the
\* rates file is missing, raises DatabaseError when the file is there and
\* does not parse, and otherwise returns the file's data as it is.
C23_LoadCurrentRates ==
    ld.op = "load_current_rates"
    => /\ ~ld.found.exists => ld.exc = "None" /\ ld.data = EmptyRates
       /\ ld.found.exists /\ ld.found.text.len < Chunks
          => ld.exc = "DatabaseError"
       /\ ld.found.exists /\ ld.found.text.len = Chunks
          => ld.exc = "None" /\ ld.data = ld.found.text.doc

\* a load of a file cut short has raised DatabaseError
C23_Witness_Corrupt ==
    /\ ld.op = "load_current_rates"
    /\ ld.found.exists /\ ld.found.text.len = 1
    /\ ld.exc = "DatabaseError"

\* C24: a start() of a running scheduler adds no job, starts no thread and
\* begins no refresh; a start() of a stopped scheduler returns with one job
\* added, one thread started and, update_on_start being set, one immediate
\* refresh made.
C24_StartOnce ==
    sched.op = "start"
    => IF sched.before.is_running
       THEN /\ sched.jobs = sched.before.jobs
            /\ sched.starts = sched.before.starts
            /\ sched.immediate = sched.before.immediate
            /\ sched.exc = "None"
       ELSE /\ sched.jobs = sched.before.jobs + 1
            /\ sched.starts = sched.before.starts + 1
            /\ sched.immediate = sched.before.immediate
                                 + (IF update_on_start THEN 1 ELSE 0)
            /\ sched.exc = "None"

\* C25: once stop() has returned, and until the next start(), the schedule
\* holds no job and no thread is inside a refresh cycle.
C25_StopQuiesces ==
    sched.stopped
    => /\ sched.jobs = 0
       /\ \A i \in 1..MaxStarts : sched.thread[i] # "cycle"

\* C26: a refresh cycle, immediate or scheduled, calls on_update_start
\* first and then exactly one of on_update_complete and on_error, once.
C26_CallbackOrder ==
    sched.op = "cycle"
    => /\ sched.cycle.calls[1] = "on_update_start"
       /\ Count(sched.cycle.calls, "on_update_start") = 1
       /\ Count(sched.cycle.calls, "on_update_complete")
          + Count(sched.cycle.calls, "on_error") = 1

\* a scheduled cycle has failed: run_update returned success = false or
\* raised, or a callback raised
CycleFailed ==
    /\ sched.op = "cycle"
    /\ sched.cycle.kind = "scheduled"
    /\ \/ sched.cycle.outcome # "success"
       \/ Count(sched.cycle.calls, "on_error") > 0
       \/ sched.cycle.exc # "None"

\* the scheduler goes on after a cycle: _is_running and the jobs are as the
\* cycle found them and the cycle's thread is back in the loop
GoesOn ==
    /\ sched.is_running = sched.before.is_running
    /\ sched.jobs = sched.before.jobs
    /\ sched.thread[sched.cycle.thread] = "loop"

\* C27 as stated: a failed cycle leaves the scheduler going, and the cycle
\* has called the updater's run_update exactly once.
C27_FailedCycle_ExactlyOnce ==
    CycleFailed
    => GoesOn /\ Count(sched.cycle.calls, "run_update") = 1

\* C27, amended: a failed cycle leaves the scheduler going, and the cycle
\* has called the updater's run_update at most once: once when
\* on_update_start returned, not at all when on_update_start raised.
C27_FailedCycle_AtMostOnce ==
    CycleFailed
    => /\ GoesOn
       /\ Count(sched.cycle.calls, "run_update")
          = (IF "on_update_start" \in sched.cycle.raises THEN 0 ELSE 1)

\* a cycle whose on_error raised has left the job, and the scheduler is
\* running with the thread in its loop
C27_Witness_ErrorCallbackRaised ==
    /\ CycleFailed
    /\ sched.cycle.exc = "Exception"
    /\ sched.is_running /\ sched.jobs = 1
    /\ sched.thread[sched.cycle.thread] = "loop"

\* a call of get_user_portfolio that found no record has inserted one, and no
\* other call has written since: the file holds the user's record with one
\* wallet, the default base currency's, with balance zero
InsertedDefault(t) ==
    /\ th[t].wrote /\ ~th[t].write_failed /\ th[t].site = "load"
    /\ \A u \in Threads \ {t} : ~th[u].wrote
    => \E i \in 1..Len(portfolios.data) :
          portfolios.data[i] =
              to_dict(th[t].user_id,
                      add_currency(NoWallets, default_base_currency))

\* C28: get_user_portfolio creates and persists, for a user without one, a
\* portfolio with exactly one wallet, the default base currency's with
\* balance zero; and whatever the interleaving of the calls, the portfolios
\* file holds at most one record per user_id.
C28_OnePortfolioPerUser ==
    /\ \A t \in Threads : InsertedDefault(t)
    /\ \A i, j \in 1..Len(portfolios.data) :
          portfolios.data[i].user_id = portfolios.data[j].user_id => i = j

\* C29: a get_rate call for two distinct registered currencies that returns
\* a rate leaves the stored rates in one of two ways: the direct pair is
\* fresh and holds the returned rate (it was returned as stored, or fetched
\* and written under from_to), or the direct pair is not fresh, the inverse
\* pair is and the returned rate is 1 / its rate.  A call that finds the
\* stored rates young enough and the direct or the inverse pair fresh does
\* not fetch: it leaves the stored rates as they are.
C29_LookupOrder ==
    [][(now' = now /\ gr'.op = "get_rate" /\ gr'.exc = "None"
                   /\ gr'.from # gr'.to)
       => /\ \/ /\ is_rate_fresh(svc'.rates[<<gr'.from, gr'.to>>], now)
                /\ svc'.rates[<<gr'.from, gr'.to>>].rate = ToFloat(gr'.rate)
             \/ /\ ~is_rate_fresh(svc'.rates[<<gr'.from, gr'.to>>], now)
                /\ is_rate_fresh(svc'.rates[<<gr'.to, gr'.from>>], now)
                /\ gr'.rate = DecDiv(One, svc'.rates[<<gr'.to, gr'.from>>].rate)
          /\ (/\ now - svc.ts <= rates_ttl
              /\ \/ is_rate_fresh(svc.rates[<<gr'.from, gr'.to>>], now)
                 \/ is_rate_fresh(svc.rates[<<gr'.to, gr'.from>>], now))
             => svc'.rates = svc.rates]_vars

\* C30: a provider request makes at most MAX_RETRIES attempts; an attempt
\* that timed out or met a connection error and was followed by another
\* attempt was followed after a sleep of RETRY_DELAY * (attempt number); and
\* the provider is on failed_sources only when MAX_RETRIES attempts have
\* been made and have failed.
C30_BoundedRetries ==
    rq.op = "_make_request"
    => /\ rq.attempts <= MAX_RETRIES
       /\ \A k \in 1..(rq.attempts - 1) :
             rq.answers[k] \in {"Timeout", "ConnectionError"}
             => rq.sleeps[k] = RETRY_DELAY * k
       /\ rq.failed => rq.attempts = MAX_RETRIES

\* C31: two refreshes that ran at the same time and both succeeded have left
\* a history that holds the records of both (all of them, or the N most
\* recent when there are more than N) and a snapshot that is the whole
\* result of one of them.
C31_RefreshesExclusive ==
    (\A r \in Refreshers :
        rf.th[r].pc = "returned" /\ rf.th[r].success /\ rf.th[r].wrote_history)
    => /\ Len(history) =
             Min(history_max_records,
                 Len(rf.start)
                 + Cardinality(DOMAIN rf.th["scheduled"].rates)
                 + Cardinality(DOMAIN rf.th["manual"].rates))
       /\ \E r \in Refreshers :
             snapshot = save_current_rates(rf.th[r].rates, rf.th[r].source, now)

\* C32: a refresh that has returned wrote both the rates file and its
\* history records or neither, and reports success only when it wrote both.
C32_RefreshAllOrNothing ==
    \A r \in Refreshers :
        rf.th[r].pc = "returned"
        => /\ rf.th[r].wrote_rates = rf.th[r].wrote_history
           /\ rf.th[r].success => (rf.th[r].wrote_rates /\ rf.th[r].wrote_history)

\* C33: the fee of a completed trade is not negative and that of a sell
\* does not exceed the revenue; a trade called with a fee percent below 0 or
\* above 100 is rejected, and the portfolios file and the ledger are as
\* they were before the call.
C33_FeeValidated ==
    \A t \in Threads :
        th[t].pc = "returned"
        => /\ th[t].result = "None"
              => /\ ~DecLess(th[t].fee, Zero)
                 /\ th[t].op = "sell" => ~DecLess(th[t].total, Zero)
           /\ (th[t].fee_given /\ th[t].fee_percent \notin 0..100)
              => /\ th[t].result # "None"
                 /\ ~th[t].wrote
                 /\ transactions = <<>>

\* C34: a refresh never removes a pair from the stored rate snapshot: every
\* pair the rates file holds before run_update is in the file after it.
C34_RefreshKeepsPairs ==
    [][(upd'.op = "run_update" /\ upd'.runs = upd.runs + 1)
       => DOMAIN snapshot.pairs \subseteq DOMAIN snapshot'.pairs]_vars

\* the clients a run_update call used all failed: each raised
AllSelectedFailed(u) ==
    \A s \in DOMAIN u.responses : ~u.responses[s].ok
\* the source filter of the call names no client (and is not "all")
NoProviderMatches(u) ==
    u.source_filter \notin {"None", "coingecko", "exchangerate"}
\* the selected clients in the order of self.clients
SelectedSources(u) ==
    SelectSeq(Sources, LAMBDA s : s \in DOMAIN u.responses)

\* C35: a run_update in which every selected provider failed, or whose
\* filter matches no provider, returns success=false with errors and with
\* every selected provider in failed_sources, and leaves the rates file and
\* the history file as they were, nothing saved and no backup made.
C35_AllProvidersFail ==
    [][(upd'.op = "run_update" /\ upd'.runs = upd.runs + 1
           /\ (AllSelectedFailed(upd') \/ NoProviderMatches(upd')))
       => /\ ~upd'.success
          /\ upd'.errors > 0
          /\ AllSelectedFailed(upd') => upd'.failed_sources = SelectedSources(upd')
          /\ ~upd'.saved
          /\ snapshot' = snapshot
          /\ history' = history]_vars

\* C36: a read_data (use_cache=True) that began after a write had completed
\* returns the data of that write or of a later one: the list it returns
\* holds at least the items the file held when the call began.
C36_CacheNotStale ==
    \A t \in Threads :
        (db.th[t].pc = "returned" /\ db.th[t].op = "read_data")
        => Len(db.th[t].ret) >= db.th[t].began

\* C37: at most one scheduler thread polls the schedule at any time, after
\* any sequence of start() and stop() calls.
C37_OnePollingThread ==
    Cardinality({i \in 1..MaxStarts : sched.thread[i] # "none"}) <= 1

\* C38: update_data is an atomic read-modify-write: an insert writes the
\* list it read with its item appended while the file still holds the list
\* it read, and the file holds the items of all the inserts that wrote, in
\* the order of their writes.
C38_UpdateDataAtomic ==
    /\ db.file = db.written
    /\ \A t \in Threads :
          db.th[t].pc = "write_file" => db.th[t].data = db.file

\* an insert has read the file and is about to write while the other
\* thread's insert waits for the lock
C38_Witness_InsertWaits ==
    \E t, u \in Threads :
        /\ db.th[t].pc = "write_file"
        /\ db.th[u].pc = "acquire"
        /\ db.lock = t

\* C39: a save_to_history that found a history file it could not parse has
\* not written the file, and the call has failed with a storage error.
C39_UnreadableHistoryFails ==
    \A r \in Refreshers :
        ~rf.th[r].found_ok
        => /\ ~rf.th[r].wrote_history
           /\ rf.th[r].pc = "returned" => rf.th[r].exc = "DatabaseError"

====
